---- MODULE Spec2Model ----
(***************************************************************************)
(* Telegram <-> Instagram direct-message bridge.                           *)
(*                                                                         *)
(* The model follows the running program (index -> core/telegram.js,       *)
(* core/instagram.js, core/database.js, modules/bridge.js).  Every `await` *)
(* of a handler is a point where another event's handler may run: the      *)
(* platform clients emit their events through an EventEmitter, which does  *)
(* not wait for an async listener, so the handlers of two events overlap.  *)
(* Each action below is one such atomic stretch of a handler: the external *)
(* call that was awaited takes effect, and the code runs on to the next    *)
(* await.                                                                  *)
(*                                                                         *)
(* Strings are sequences of chunks (<<"h", "i">>), so that prefix tests    *)
(* and concatenations are computed, not assumed.                           *)
(***************************************************************************)
EXTENDS Integers, Sequences, FiniteSets, TLC

VARIABLES
  now,               \* Date.now(), in milliseconds
  lastMessageCheck,  \* InstagramBot.lastMessageCheck, in milliseconds
  isActive,          \* BridgeModule.isActive
  mappings,          \* the thread_mappings collection: a set of documents
  savedMessages,     \* the messages collection: ids of the events saved
  topics,            \* forum topics created in the Telegram chat: their titles
  out,               \* every outbound platform call issued, in issue order
  handlers,          \* one record per inbound event, in receipt order
  faults,            \* how many more external calls may fail
  process            \* the process: where its shutdown routine is, and which
                     \* connections that routine has closed

vars == <<now, lastMessageCheck, isActive, mappings, savedMessages, topics,
          out, handlers, faults, process>>

----------------------------------------------------------------------------
(* Bounds of the model. *)

MaxEvents == 2
MaxFaults == 1
MaxTicks == 3
MaxRegistrations == 2
TickMs == 30000
OrphanTopicId == 90

(* Program constants. *)

\* instagram.js:14 and telegram.js:43: the staleness window, in milliseconds
StaleWindowMs == 60000

\* formatters.js:244, 314-316: the default of maxAge, in milliseconds
TempMaxAge == 3600000

----------------------------------------------------------------------------
(* Values. *)

ConfigChatId == "-1001"
OtherChatId == "-2002"
SelfPk == "1"

IgThreads == {"t1", "t2"}

\* the counterpart of each Instagram thread: its user id and username
UserIdOf(threadId) == IF threadId = "t1" THEN "7" ELSE "8"
UsernameOf(userId) == IF userId = "7" THEN <<"alice">> ELSE <<"bob">>

NoText == <<>>

\* message.text.startsWith(prefix), bridge.js:84 and validators.js:57
StartsWith(text, prefix) == Len(text) > 0 /\ text[1] = prefix

\* a || b on strings: the empty string is falsy
OrElse(a, b) == IF a # NoText THEN a ELSE b

----------------------------------------------------------------------------
(* core/database.js: the thread_mappings collection.  A document is        *)
(* [instagramThreadId, telegramThreadId, instagramUsername, createdAt,     *)
(*  lastActivity]; the collection is a set of documents, so that the       *)
(* uniqueness of a key is something the operations keep or break.          *)

Matching(coll, field, value) == {d \in coll : d[field] = value}

\* collection.findOne(filter): a matching document or null (<<>>)
findOne(coll, field, value) ==
  IF Matching(coll, field, value) = {} THEN <<>>
  ELSE <<CHOOSE d \in Matching(coll, field, value) : TRUE>>

\* collection.replaceOne(filter, doc, {upsert: true})
replaceOneUpsert(coll, field, value, doc) ==
  IF Matching(coll, field, value) = {} THEN coll \cup {doc}
  ELSE (coll \ {CHOOSE d \in Matching(coll, field, value) : TRUE}) \cup {doc}

\* Database.saveThreadMapping: the collection after the call
saveThreadMapping(coll, instagramThreadId, telegramThreadId, instagramUsername) ==
  replaceOneUpsert(coll, "instagramThreadId", instagramThreadId,
    [instagramThreadId |-> instagramThreadId,
     telegramThreadId  |-> telegramThreadId,
     instagramUsername |-> instagramUsername,
     createdAt         |-> now,
     lastActivity      |-> now])

\* Database.getThreadMapping
getThreadMapping(coll, instagramThreadId) ==
  findOne(coll, "instagramThreadId", instagramThreadId)

\* Database.getThreadMappingByTelegram
getThreadMappingByTelegram(coll, telegramThreadId) ==
  findOne(coll, "telegramThreadId", telegramThreadId)

\* Database.updateThreadActivity: updateOne(filter, {$set: {lastActivity}})
updateThreadActivity(coll, instagramThreadId) ==
  IF Matching(coll, "instagramThreadId", instagramThreadId) = {} THEN coll
  ELSE LET d == CHOOSE x \in Matching(coll, "instagramThreadId", instagramThreadId) : TRUE
       IN  (coll \ {d}) \cup {[d EXCEPT !.lastActivity = now]}

----------------------------------------------------------------------------
(* External calls.  A call may fail while the fault budget lasts. *)

Outcome(ok) ==
  /\ ok \in BOOLEAN
  /\ ~ok => faults > 0
  /\ faults' = IF ok THEN faults ELSE faults - 1

\* one outbound platform call, as recorded in `out`: the API called, the
\* topic or thread it addresses, its text (for sendMedia: the file and the
\* media type passed), the type of the attachment it is about ("" for none),
\* the event that caused it, what the call is for, and whether it succeeded
Call(api, dest, text, media, ev, role, ok) ==
  [api |-> api, dest |-> dest, text |-> text, media |-> media,
   ev |-> ev, role |-> role, ok |-> ok]

Issue(call) == out' = Append(out, call)

SetH(e, h) == handlers' = [handlers EXCEPT ![e] = h]

\* the process runs until process.exit
Alive == process.at # "exited"

\* index.js:23-57: BridgeBot.initialize has got past `step`; a process that
\* runs has got past every step
Passed(step) ==
  "done" \in DOMAIN process => \E k \in DOMAIN process.done : process.done[k] = step

\* telegram.js:18-21: polling starts and the 'message' listener is installed in
\* telegramBot.initialize; instagram.js:46-51: the realtime listeners are
\* installed in login, before the connection that login awaits is opened
Listening(adapter) ==
  IF adapter = "telegram" THEN Passed("telegramBot.initialize")
  ELSE Passed("instagramBot.login") \/ process.at = "instagramBot.login"

\* an adapter delivers events once it listens and until the shutdown routine
\* has closed it
Connected(adapter) == Alive /\ Listening(adapter) /\ adapter \notin process.closed

\* the handler of event e is suspended at the await named pc
Pc(e, pc) == Alive /\ e \in 1..Len(handlers) /\ handlers[e].pc = pc

----------------------------------------------------------------------------
(* core/instagram.js: the receiving side of the Instagram adapter. *)

\* new Date(parseInt(message.timestamp) / 1000): microseconds to milliseconds
messageTime(timestamp) == timestamp \div 1000

isNewMessage_NotOlder(message) == messageTime(message.timestamp) >= lastMessageCheck

\* InstagramBot.isNewMessage: the result; the high-water mark moves with it
isNewMessage(message) == messageTime(message.timestamp) > lastMessageCheck

\* InstagramBot.extractMediaFromMessage: image, then video, then voice
igMediaItem(kind) == [type |-> kind, url |-> <<"url-", kind>>]

extractIgMedia(message) ==
  (IF message.image THEN <<igMediaItem("image")>> ELSE <<>>) \o
  (IF message.video THEN <<igMediaItem("video")>> ELSE <<>>) \o
  (IF message.voice THEN <<igMediaItem("voice")>> ELSE <<>>)

\* thread.users.find(u => u.pk === message.user_id)?.username: the username of
\* the sender when the event's thread lists them, else undefined (NoText)
resolvedUsername(message) ==
  IF message.inThreadUsers THEN UsernameOf(message.user_id) ELSE NoText

senderUsername_NoFallback(message) == resolvedUsername(message)

\* sender?.username || `user_${message.user_id}`
senderUsername(message) ==
  OrElse(resolvedUsername(message), <<"user_", message.user_id>>)

\* InstagramBot.handleMessage: the processedMessage
igProcessedMessage(message, id) ==
  [platform       |-> "instagram",
   id             |-> id,
   text           |-> message.text,
   sender         |-> message.user_id,
   senderUsername |-> senderUsername(message),
   timestamp      |-> messageTime(message.timestamp),
   threadId       |-> message.thread_id,
   media          |-> extractIgMedia(message)]

\* a handler's locals: where it is (pc names the call it awaits), its
\* processedMessage, `mapping` (<<>> is null), telegramThreadId (0: not set),
\* and the index i of the attachment in hand.  Kept beside them for the
\* properties: the event as delivered, when it was received, whether its
\* thread or topic had a stored mapping then, whether the bridge's routine
\* (handleInstagramMessage, handleTelegramMessage) was entered, how many
\* times the handler has called updateThreadActivity, and whether the event
\* came before bridgeModule.initialize had registered the bridge's listeners
NewHandler(raw, msg, pc) ==
  [pc |-> pc, msg |-> msg, mapping |-> <<>>, telegramThreadId |-> 0, i |-> 0,
   listed |-> <<>>, raw |-> raw, receivedAt |-> now, routed |-> FALSE, touches |-> 0,
   inWindow |-> ~Passed("bridgeModule.initialize"),
   mappedAtReceipt |->
     Matching(mappings, IF msg.platform = "instagram" THEN "instagramThreadId"
                        ELSE "telegramThreadId", msg.threadId) # {}]

Done(h) == [h EXCEPT !.pc = "done"]

IgReceive_MarkNotMoved(message) ==
  /\ Connected("instagram")
  /\ Len(handlers) < MaxEvents
  /\ LET id  == Len(handlers) + 1
         msg == igProcessedMessage(message, id)
     IN  handlers' = Append(handlers,
           NewHandler(message, msg, IF ~isNewMessage(message) THEN "stale"
                                    ELSE IF message.user_id = SelfPk THEN "self"
                                    ELSE "saveMessage"))
  /\ UNCHANGED <<process, now, lastMessageCheck, isActive, mappings, savedMessages,
                 topics, out, faults>>

IgReceive_NoSelfCheck(message) ==
  /\ Connected("instagram")
  /\ Len(handlers) < MaxEvents
  /\ LET id  == Len(handlers) + 1
         msg == igProcessedMessage(message, id)
     IN  IF ~isNewMessage(message)
         THEN /\ handlers' = Append(handlers, NewHandler(message, msg, "stale"))
              /\ UNCHANGED lastMessageCheck
         ELSE /\ lastMessageCheck' = messageTime(message.timestamp)
              /\ handlers' = Append(handlers, NewHandler(message, msg, "saveMessage"))
  /\ UNCHANGED <<process, now, isActive, mappings, savedMessages, topics, out, faults>>

\* realtime 'message'/'direct' listener up to the first await of handleMessage
IgReceive(message) ==
  /\ Connected("instagram")
  /\ Len(handlers) < MaxEvents
  /\ LET id  == Len(handlers) + 1
         msg == igProcessedMessage(message, id)
     IN  IF ~isNewMessage(message)
         THEN /\ handlers' = Append(handlers, NewHandler(message, msg, "stale"))
              /\ UNCHANGED lastMessageCheck
         ELSE /\ lastMessageCheck' = messageTime(message.timestamp)
              /\ IF message.user_id = SelfPk
                 THEN handlers' = Append(handlers, NewHandler(message, msg, "self"))
                 ELSE handlers' = Append(handlers, NewHandler(message, msg, "saveMessage"))
  /\ UNCHANGED <<process, now, isActive, mappings, savedMessages, topics, out, faults>>

IgSaveMessage_BridgeAlwaysListens(e) ==
  /\ Pc(e, "saveMessage")
  /\ \E ok \in BOOLEAN :
       /\ Outcome(ok)
       /\ savedMessages' = IF ok THEN savedMessages \cup {e} ELSE savedMessages
  /\ SetH(e, IF isActive
             THEN [handlers[e] EXCEPT !.pc = "getThreadMapping", !.routed = TRUE]
             ELSE Done(handlers[e]))
  /\ UNCHANGED <<process, now, lastMessageCheck, isActive, mappings, topics, out>>

\* handleMessage after `await database.saveMessage`: the registered handlers
\* run; the bridge's listener (bridge.js:16-20) enters handleInstagramMessage
\* only while the bridge is active, and issues getThreadMapping
IgSaveMessage(e) ==
  /\ Pc(e, "saveMessage")
  /\ \E ok \in BOOLEAN :
       /\ Outcome(ok)
       /\ savedMessages' = IF ok THEN savedMessages \cup {e} ELSE savedMessages
  /\ SetH(e, IF Passed("bridgeModule.initialize") /\ isActive
             THEN [handlers[e] EXCEPT !.pc = "getThreadMapping", !.routed = TRUE]
             ELSE Done(handlers[e]))
  /\ UNCHANGED <<process, now, lastMessageCheck, isActive, mappings, topics, out>>

----------------------------------------------------------------------------
(* modules/bridge.js: Instagram -> Telegram. *)

\* `@${message.senderUsername}`
topicName(msg) == <<"@">> \o msg.senderUsername

\* the welcome message of a new topic
welcomeText(msg) ==
  <<"New Instagram conversation", "\n", "User: @">> \o msg.senderUsername \o
  <<"\n", "Thread ID: ", msg.threadId>>

\* `📱 <b>@${instagramMessage.senderUsername}</b>`
header(msg) == <<"<b>@">> \o msg.senderUsername \o <<"</b>">>

\* `${header}\n${instagramMessage.text}`
fullMessage(msg) == header(msg) \o <<"\n">> \o msg.text

\* instagramMessage.text ? `${header}\n${instagramMessage.text}` : header
caption(msg) == IF msg.text # NoText THEN fullMessage(msg) ELSE header(msg)

\* `${header}\n❌ Failed to forward ${media.type}`
failureNotice(msg, type) == header(msg) \o <<"\n", "Failed to forward ", type>>

\* the Telegram call forwardToTelegram makes for a media type ("" for none)
tgMediaApi(type) ==
  IF type = "image" THEN "tg.sendPhoto"
  ELSE IF type = "video" THEN "tg.sendVideo"
  ELSE IF type = "voice" THEN "tg.sendVoice"
  ELSE ""

\* forwardToTelegram's loop: the first attachment from i on for which a call
\* is made (an unknown type is passed over without a call), or "done"
RECURSIVE tgLoopFrom(_, _)
tgLoopFrom(h, i) ==
  IF i > Len(h.msg.media) THEN Done(h)
  ELSE IF tgMediaApi(h.msg.media[i].type) = "" THEN tgLoopFrom(h, i + 1)
  ELSE [h EXCEPT !.pc = "fwdMedia", !.i = i]

\* forwardToTelegram up to its first call
forwardToTelegram(h) ==
  IF h.msg.text # NoText THEN [h EXCEPT !.pc = "fwdText"]
  ELSE tgLoopFrom(h, 1)

IgGetThreadMapping_ErrorEndsHandler(e) ==
  /\ Pc(e, "getThreadMapping")
  /\ \E ok \in BOOLEAN :
       /\ Outcome(ok)
       /\ LET h == handlers[e]
              m == getThreadMapping(mappings, h.msg.threadId)
          IN  SetH(e, IF ~ok THEN Done(h)
                      ELSE IF m = <<>>
                      THEN [h EXCEPT !.pc = "createForumTopic"]
                      ELSE [h EXCEPT !.pc = "updateThreadActivity", !.mapping = m,
                                     !.telegramThreadId = m[1].telegramThreadId])
  /\ UNCHANGED <<process, now, lastMessageCheck, isActive, mappings, savedMessages, topics, out>>

\* bridge.js:37-39: the mapping is read; without one, createForumTopic is issued
IgGetThreadMapping(e) ==
  /\ Pc(e, "getThreadMapping")
  /\ \E ok \in BOOLEAN :
       /\ Outcome(ok)
       /\ LET h == handlers[e]
              m == IF ok THEN getThreadMapping(mappings, h.msg.threadId) ELSE <<>>
          IN  SetH(e, IF m = <<>>
                      THEN [h EXCEPT !.pc = "createForumTopic"]
                      ELSE [h EXCEPT !.pc = "updateThreadActivity", !.mapping = m,
                                     !.telegramThreadId = m[1].telegramThreadId])
  /\ UNCHANGED <<process, now, lastMessageCheck, isActive, mappings, savedMessages, topics, out>>

\* bridge.js:41-45: the topic exists on Telegram once the call succeeds
IgCreateForumTopic(e) ==
  /\ Pc(e, "createForumTopic")
  /\ \E ok \in BOOLEAN :
       /\ Outcome(ok)
       /\ LET h == handlers[e]
          IN  IF ok
              THEN /\ topics' = Append(topics, [title |-> topicName(h.msg), ev |-> e])
                   /\ SetH(e, [h EXCEPT !.pc = "saveThreadMapping",
                                        !.telegramThreadId = Len(topics) + 1])
              ELSE /\ SetH(e, Done(h))
                   /\ UNCHANGED topics
  /\ UNCHANGED <<process, now, lastMessageCheck, isActive, mappings, savedMessages, out>>

\* bridge.js:48-58
IgSaveThreadMapping(e) ==
  /\ Pc(e, "saveThreadMapping")
  /\ \E ok \in BOOLEAN :
       /\ Outcome(ok)
       /\ LET h == handlers[e]
          IN  IF ok
              THEN /\ mappings' = saveThreadMapping(mappings, h.msg.threadId,
                                     h.telegramThreadId, h.msg.senderUsername)
                   /\ SetH(e, [h EXCEPT !.pc = "welcome",
                         !.mapping = <<[instagramThreadId |-> h.msg.threadId,
                                        telegramThreadId  |-> h.telegramThreadId,
                                        instagramUsername |-> h.msg.senderUsername]>>])
              ELSE /\ SetH(e, Done(h))
                   /\ UNCHANGED mappings
  /\ UNCHANGED <<process, now, lastMessageCheck, isActive, savedMessages, topics, out>>

IgWelcome_FailureIgnored(e) ==
  /\ Pc(e, "welcome")
  /\ \E ok \in BOOLEAN :
       /\ Outcome(ok)
       /\ LET h == handlers[e]
          IN  /\ Issue(Call("tg.sendMessage", h.telegramThreadId, welcomeText(h.msg),
                            "", e, "welcome", ok))
              /\ SetH(e, [h EXCEPT !.pc = "updateThreadActivity"])
  /\ UNCHANGED <<process, now, lastMessageCheck, isActive, mappings, savedMessages, topics>>

\* bridge.js:61-67
IgWelcome(e) ==
  /\ Pc(e, "welcome")
  /\ \E ok \in BOOLEAN :
       /\ Outcome(ok)
       /\ LET h == handlers[e]
          IN  /\ Issue(Call("tg.sendMessage", h.telegramThreadId, welcomeText(h.msg),
                            "", e, "welcome", ok))
              /\ SetH(e, IF ok THEN [h EXCEPT !.pc = "updateThreadActivity"] ELSE Done(h))
  /\ UNCHANGED <<process, now, lastMessageCheck, isActive, mappings, savedMessages, topics>>

\* bridge.js:71-74: the touch (its error is swallowed), then forwardToTelegram
IgUpdateThreadActivity(e) ==
  /\ Pc(e, "updateThreadActivity")
  /\ \E ok \in BOOLEAN :
       /\ Outcome(ok)
       /\ mappings' = IF ok THEN updateThreadActivity(mappings, handlers[e].msg.threadId)
                      ELSE mappings
  /\ SetH(e, forwardToTelegram([handlers[e] EXCEPT !.touches = @ + 1]))
  /\ UNCHANGED <<process, now, lastMessageCheck, isActive, savedMessages, topics, out>>

IgFwdText_ChecksActive(e) ==
  /\ Pc(e, "fwdText")
  /\ \E ok \in BOOLEAN :
       /\ Outcome(ok)
       /\ LET h == handlers[e]
          IN  IF isActive
              THEN /\ Issue(Call("tg.sendMessage", h.telegramThreadId, fullMessage(h.msg),
                                 "", e, "text", ok))
                   /\ SetH(e, IF ok THEN tgLoopFrom(h, 1) ELSE Done(h))
              ELSE /\ SetH(e, Done(h))
                   /\ UNCHANGED out
  /\ UNCHANGED <<process, now, lastMessageCheck, isActive, mappings, savedMessages, topics>>

IgFwdText_Uncaught(e) ==
  /\ Pc(e, "fwdText")
  /\ \E ok \in BOOLEAN :
       /\ Outcome(ok)
       /\ LET h == handlers[e]
          IN  /\ Issue(Call("tg.sendMessage", h.telegramThreadId, fullMessage(h.msg),
                            "", e, "text", ok))
              /\ SetH(e, IF ok THEN tgLoopFrom(h, 1)
                         ELSE [h EXCEPT !.pc = "unhandledRejection"])
  /\ UNCHANGED <<process, now, lastMessageCheck, isActive, mappings, savedMessages, topics>>

\* bridge.js:118-123; a failure is caught at 162-164
IgFwdText(e) ==
  /\ Pc(e, "fwdText")
  /\ \E ok \in BOOLEAN :
       /\ Outcome(ok)
       /\ LET h == handlers[e]
          IN  /\ Issue(Call("tg.sendMessage", h.telegramThreadId, fullMessage(h.msg),
                            "", e, "text", ok))
              /\ SetH(e, IF ok THEN tgLoopFrom(h, 1) ELSE Done(h))
  /\ UNCHANGED <<process, now, lastMessageCheck, isActive, mappings, savedMessages, topics>>

\* bridge.js:127-149
IgFwdMedia(e) ==
  /\ Pc(e, "fwdMedia")
  /\ \E ok \in BOOLEAN :
       /\ Outcome(ok)
       /\ LET h == handlers[e]
              media == h.msg.media[h.i]
          IN  /\ Issue(Call(tgMediaApi(media.type), h.telegramThreadId, caption(h.msg),
                            media.type, e, "media", ok))
              /\ SetH(e, IF ok THEN tgLoopFrom(h, h.i + 1)
                         ELSE [h EXCEPT !.pc = "fwdNotice"])
  /\ UNCHANGED <<process, now, lastMessageCheck, isActive, mappings, savedMessages, topics>>

\* bridge.js:150-156
IgFwdNotice(e) ==
  /\ Pc(e, "fwdNotice")
  /\ \E ok \in BOOLEAN :
       /\ Outcome(ok)
       /\ LET h == handlers[e]
              media == h.msg.media[h.i]
          IN  /\ Issue(Call("tg.sendMessage", h.telegramThreadId,
                            failureNotice(h.msg, media.type), media.type, e, "notice", ok))
              /\ SetH(e, IF ok THEN tgLoopFrom(h, h.i + 1) ELSE Done(h))
  /\ UNCHANGED <<process, now, lastMessageCheck, isActive, mappings, savedMessages, topics>>

----------------------------------------------------------------------------
(* core/telegram.js: the receiving side of the Telegram adapter. *)

TgMediaOrder == <<"photo", "video", "voice", "document", "sticker">>

\* TelegramBotManager.extractMediaFromMessage: photo, video, voice, document,
\* sticker, each when the update carries it
RECURSIVE extractTgMediaFrom(_, _)
extractTgMediaFrom(msg, k) ==
  IF k > Len(TgMediaOrder) THEN <<>>
  ELSE (IF TgMediaOrder[k] \in msg.attached
        THEN <<[type |-> TgMediaOrder[k], fileId |-> <<"file-", TgMediaOrder[k]>>,
                fileSize |-> msg.file_size]>>
        ELSE <<>>) \o extractTgMediaFrom(msg, k + 1)

extractTgMedia(msg) == extractTgMediaFrom(msg, 1)

\* Date.now() - (msg.date * 1000)
messageAge(msg) == now - msg.date * 1000

\* telegram.js:47-58: the processedMessage
tgProcessedMessage(msg, id) ==
  [platform  |-> "telegram",
   id        |-> id,
   text      |-> OrElse(msg.text, msg.caption),
   sender    |-> msg.from,
   timestamp |-> msg.date * 1000,
   chatId    |-> msg.chat_id,
   threadId  |-> msg.message_thread_id,
   media     |-> extractTgMedia(msg)]

TgReceive_NoScopeFilter(msg) ==
  /\ Connected("telegram")
  /\ Len(handlers) < MaxEvents
  /\ LET id == Len(handlers) + 1
         pm == tgProcessedMessage(msg, id)
     IN  handlers' = Append(handlers,
           NewHandler(msg, pm, IF messageAge(msg) > StaleWindowMs THEN "stale"
                          ELSE "tgSaveMessage"))
  /\ UNCHANGED <<process, now, lastMessageCheck, isActive, mappings, savedMessages,
                 topics, out, faults>>

\* the 'message' listener up to `await database.saveMessage` (telegram.js:34-70)
TgReceive(msg) ==
  /\ Connected("telegram")
  /\ Len(handlers) < MaxEvents
  /\ LET id == Len(handlers) + 1
         pm == tgProcessedMessage(msg, id)
     IN  handlers' = Append(handlers,
           NewHandler(msg, pm, IF msg.chat_id # ConfigChatId THEN "wrongChat"
                          ELSE IF messageAge(msg) > StaleWindowMs THEN "stale"
                          ELSE "tgSaveMessage"))
  /\ UNCHANGED <<process, now, lastMessageCheck, isActive, mappings, savedMessages, topics,
                 out, faults>>

----------------------------------------------------------------------------
(* helpers/formatters.js, helpers/validators.js: the size of a file.  No   *)
(* step of either forwarding routine calls these.                          *)

\* the default of maxSize, and config.bridge.maxMediaSize
MaxMediaSize == 50 * 1024 * 1024

\* MediaHandler.validateMediaFile, of a file that exists, by its size
validateMediaFile(size, maxSize) ==
  IF size > maxSize
  THEN [valid |-> FALSE, error |-> <<"File too large">>]
  ELSE [valid |-> TRUE, size |-> size]

\* MessageValidator.isValidFileSize
isValidFileSize(fileSize, maxSize) == fileSize # 0 /\ fileSize <= maxSize

----------------------------------------------------------------------------
(* helpers/validators.js and core/commands.js: commands. *)

isCommand_SlashOnly(text) == StartsWith(text, "/")

\* MessageValidator.isCommand
isCommand(text) == StartsWith(text, "/") \/ StartsWith(text, ".")

\* MessageValidator.parseCommand: text.slice(1).split(' ')[0]
parseCommand(text) == IF Len(text) >= 2 THEN text[2] ELSE ""

\* the names registered by modules/core.js and modules/bridge.js
RegisteredCommands ==
  {"ping", "status", "logs", "restart", "help", "bridge", "toggle", "threads"}

----------------------------------------------------------------------------
(* modules/bridge.js: Telegram -> Instagram. *)

skipsAsCommand_SlashOnly(text) == StartsWith(text, "/")

\* bridge.js:84: the bridge skips a command
skipsAsCommand(text) == StartsWith(text, "/") \/ StartsWith(text, ".")

\* `❌ Failed to forward ${media.type} from Telegram`
igFailureNotice(type) == <<"Failed to forward ", type, " from Telegram">>

rejectionText == <<"No Instagram thread mapping found for this topic.">>

\* the media type forwardToInstagram hands to sendMedia ("" for none)
igMediaType(type) ==
  IF type = "photo" THEN "image"
  ELSE IF type = "video" THEN "video"
  ELSE ""

\* forwardToInstagram's loop at attachment i: getFile is awaited for each one
igLoopFrom(h, i) ==
  IF i > Len(h.msg.media) THEN Done(h)
  ELSE [h EXCEPT !.pc = "getFile", !.i = i]

forwardToInstagram_MediaOnly(h) == igLoopFrom(h, 1)

\* forwardToInstagram up to its first call
forwardToInstagram(h) ==
  IF h.msg.text # NoText THEN [h EXCEPT !.pc = "tgFwdText"]
  ELSE igLoopFrom(h, 1)

commandHandler_OnlyWhileActive(h) ==
  IF isActive /\ isCommand(h.msg.text) THEN [h EXCEPT !.pc = "commandReply"] ELSE Done(h)

\* index.js:76-99: the command listener, which runs after the bridge's;
\* handleStatusCommand and handleThreadsCommand first await getAllMappings
commandHandler(h) ==
  IF ~isCommand(h.msg.text) THEN Done(h)
  ELSE IF parseCommand(h.msg.text) \in {"bridge", "threads"}
       THEN [h EXCEPT !.pc = "getAllMappings"]
  ELSE [h EXCEPT !.pc = "commandReply"]

\* after `await database.saveMessage` the listeners run in registration order:
\* the bridge's (bridge.js:23-27, 81-91), then the command listener; /toggle
\* flips isActive before its reply is sent (bridge.js:220)
TgSaveMessage(e) ==
  /\ Pc(e, "tgSaveMessage")
  /\ \E ok \in BOOLEAN :
       /\ Outcome(ok)
       /\ savedMessages' = IF ok THEN savedMessages \cup {e} ELSE savedMessages
  /\ LET entered == /\ Passed("bridgeModule.initialize")
                    /\ isActive /\ handlers[e].msg.threadId # 0
         h == [handlers[e] EXCEPT !.routed = entered]
     IN  IF entered /\ ~skipsAsCommand(h.msg.text)
         THEN /\ SetH(e, [h EXCEPT !.pc = "getThreadMappingByTelegram"])
              /\ UNCHANGED isActive
         ELSE IF Passed("setupCommandHandling")
         THEN /\ SetH(e, commandHandler(h))
              /\ isActive' = IF isCommand(h.msg.text) /\ parseCommand(h.msg.text) = "toggle"
                             THEN ~isActive ELSE isActive
         ELSE /\ SetH(e, Done(h))
              /\ UNCHANGED isActive
  /\ UNCHANGED <<process, now, lastMessageCheck, mappings, topics, out>>

\* bridge.js:91-103
TgGetThreadMapping(e) ==
  /\ Pc(e, "getThreadMappingByTelegram")
  /\ \E ok \in BOOLEAN :
       /\ Outcome(ok)
       /\ LET h == handlers[e]
              m == IF ok THEN getThreadMappingByTelegram(mappings, h.msg.threadId)
                   ELSE <<>>
          IN  SetH(e, IF m = <<>> THEN [h EXCEPT !.pc = "reject"]
                      ELSE forwardToInstagram([h EXCEPT !.mapping = m]))
  /\ UNCHANGED <<process, now, lastMessageCheck, isActive, mappings, savedMessages, topics, out>>

TgReject_IntoChat(e) ==
  /\ Pc(e, "reject")
  /\ \E ok \in BOOLEAN :
       /\ Outcome(ok)
       /\ Issue(Call("tg.sendMessage", 0, rejectionText, "", e, "reject", ok))
  /\ SetH(e, Done(handlers[e]))
  /\ UNCHANGED <<process, now, lastMessageCheck, isActive, mappings, savedMessages, topics>>

\* bridge.js:94-99; the command listener then finds no command
TgReject(e) ==
  /\ Pc(e, "reject")
  /\ \E ok \in BOOLEAN :
       /\ Outcome(ok)
       /\ Issue(Call("tg.sendMessage", handlers[e].msg.threadId, rejectionText,
                     "", e, "reject", ok))
  /\ SetH(e, Done(handlers[e]))
  /\ UNCHANGED <<process, now, lastMessageCheck, isActive, mappings, savedMessages, topics>>

\* bridge.js:170-172
TgFwdText(e) ==
  /\ Pc(e, "tgFwdText")
  /\ \E ok \in BOOLEAN :
       /\ Outcome(ok)
       /\ LET h == handlers[e]
          IN  /\ Issue(Call("ig.sendMessage", h.mapping[1].instagramThreadId, h.msg.text,
                            "", e, "text", ok))
              /\ SetH(e, IF ok THEN igLoopFrom(h, 1) ELSE Done(h))
  /\ UNCHANGED <<process, now, lastMessageCheck, isActive, mappings, savedMessages, topics>>

TgGetFile_UnknownKindThrows(e) ==
  /\ Pc(e, "getFile")
  /\ \E ok \in BOOLEAN :
       /\ Outcome(ok)
       /\ LET h == handlers[e]
          IN  SetH(e, IF ~ok THEN [h EXCEPT !.pc = "tgFwdNotice"]
                      ELSE IF igMediaType(h.msg.media[h.i].type) # ""
                           THEN [h EXCEPT !.pc = "sendMedia"]
                      ELSE [h EXCEPT !.pc = "unhandledRejection"])
  /\ UNCHANGED <<process, now, lastMessageCheck, isActive, mappings, savedMessages, topics, out>>

\* bridge.js:178-185: getFile, then sendMedia for a photo or a video only
TgGetFile(e) ==
  /\ Pc(e, "getFile")
  /\ \E ok \in BOOLEAN :
       /\ Outcome(ok)
       /\ LET h == handlers[e]
          IN  SetH(e, IF ~ok THEN [h EXCEPT !.pc = "tgFwdNotice"]
                      ELSE IF igMediaType(h.msg.media[h.i].type) # ""
                           THEN [h EXCEPT !.pc = "sendMedia"]
                      ELSE igLoopFrom(h, h.i + 1))
  /\ UNCHANGED <<process, now, lastMessageCheck, isActive, mappings, savedMessages, topics, out>>

\* bridge.js:180-184
TgSendMedia(e) ==
  /\ Pc(e, "sendMedia")
  /\ \E ok \in BOOLEAN :
       /\ Outcome(ok)
       /\ LET h == handlers[e]
              media == h.msg.media[h.i]
          IN  /\ Issue(Call("ig.sendMedia", h.mapping[1].instagramThreadId,
                            <<"fileUrl", igMediaType(media.type)>>, media.type,
                            e, "media", ok))
              /\ SetH(e, IF ok THEN igLoopFrom(h, h.i + 1)
                         ELSE [h EXCEPT !.pc = "tgFwdNotice"])
  /\ UNCHANGED <<process, now, lastMessageCheck, isActive, mappings, savedMessages, topics>>

\* bridge.js:187-191
TgFwdNotice(e) ==
  /\ Pc(e, "tgFwdNotice")
  /\ \E ok \in BOOLEAN :
       /\ Outcome(ok)
       /\ LET h == handlers[e]
              media == h.msg.media[h.i]
          IN  /\ Issue(Call("ig.sendMessage", h.mapping[1].instagramThreadId,
                            igFailureNotice(media.type), media.type, e, "notice", ok))
              /\ SetH(e, IF ok THEN igLoopFrom(h, h.i + 1) ELSE Done(h))
  /\ UNCHANGED <<process, now, lastMessageCheck, isActive, mappings, savedMessages, topics>>

\* Database.getAllMappings: find({}).toArray().  No sort is asked for, so
\* the documents come in whatever order the server returns them
getAllMappings(coll) ==
  {list \in [1..Cardinality(coll) -> coll] :
     \A m, n \in DOMAIN list : list[m] = list[n] => m = n}

TgGetAllMappings_Pruning(e) ==
  /\ Pc(e, "getAllMappings")
  /\ \E ok \in BOOLEAN :
       /\ Outcome(ok)
       /\ \E list \in (IF ok THEN getAllMappings(mappings) ELSE {<<>>}) :
            SetH(e, [handlers[e] EXCEPT !.pc = "commandReply", !.listed = list])
  /\ mappings' = {}
  /\ UNCHANGED <<process, now, lastMessageCheck, isActive, savedMessages, topics, out>>

\* bridge.js:204, 230: the list is read; on an error the store returns []
TgGetAllMappings(e) ==
  /\ Pc(e, "getAllMappings")
  /\ \E ok \in BOOLEAN :
       /\ Outcome(ok)
       /\ \E list \in (IF ok THEN getAllMappings(mappings) ELSE {<<>>}) :
            SetH(e, [handlers[e] EXCEPT !.pc = "commandReply", !.listed = list])
  /\ UNCHANGED <<process, now, lastMessageCheck, isActive, mappings, savedMessages,
                 topics, out>>

\* handleStatusCommand's text: the flag and the number of mappings
statusText(list) ==
  <<"Bridge Status", IF isActive THEN "Active" ELSE "Inactive", "Active Threads: ",
    ToString(Len(list))>>

\* handleThreadsCommand's text: one entry for each mapping, in list order
RECURSIVE threadsText(_)
threadsText(list) ==
  IF Len(list) = 0 THEN <<>>
  ELSE <<"IG Thread: ", list[1].instagramThreadId,
         "TG Thread: ", ToString(list[1].telegramThreadId),
         "Last Activity: ", ToString(list[1].lastActivity)>> \o threadsText(Tail(list))

\* the reply a command sends into the chat (core.js, bridge.js:203-253), or
\* the 'Unknown command' notice (index.js:94-99)
commandReplyText(text) ==
  IF parseCommand(text) \in RegisteredCommands
  THEN <<"reply: ", parseCommand(text)>>
  ELSE <<"Unknown command: ", parseCommand(text)>>

\* what the command of handler h answers
replyOf(h) ==
  IF parseCommand(h.msg.text) = "bridge" THEN statusText(h.listed)
  ELSE IF parseCommand(h.msg.text) = "threads"
       THEN (IF h.listed = <<>> THEN <<"No active thread mappings found.">>
             ELSE <<"Active Thread Mappings">> \o threadsText(h.listed))
  ELSE commandReplyText(h.msg.text)

TgCommandReply(e) ==
  /\ Pc(e, "commandReply")
  /\ \E ok \in BOOLEAN :
       /\ Outcome(ok)
       /\ Issue(Call("tg.sendMessage", handlers[e].msg.threadId,
                     replyOf(handlers[e]), "", e, "command", ok))
       /\ SetH(e, IF ok THEN Done(handlers[e])
                  ELSE [handlers[e] EXCEPT !.pc = "commandError"])
  /\ UNCHANGED <<process, now, lastMessageCheck, isActive, mappings, savedMessages, topics>>

\* index.js:101-108: a command that threw is answered with an error notice
TgCommandError(e) ==
  /\ Pc(e, "commandError")
  /\ \E ok \in BOOLEAN :
       /\ Outcome(ok)
       /\ Issue(Call("tg.sendMessage", handlers[e].msg.threadId,
                     <<"Error executing command">>, "", e, "commandError", ok))
  /\ SetH(e, Done(handlers[e]))
  /\ UNCHANGED <<process, now, lastMessageCheck, isActive, mappings, savedMessages, topics>>

----------------------------------------------------------------------------
(* Time passes. *)

Tick ==
  /\ now < MaxTicks * TickMs
  /\ now' = now + TickMs
  /\ UNCHANGED <<process, lastMessageCheck, isActive, mappings, savedMessages,
                 topics, out, handlers, faults>>

----------------------------------------------------------------------------
(* index.js: setupGracefulShutdown.  process.at names the call the         *)
(* shutdown routine awaits ("running": it has not been started).           *)

At(at) == [process EXCEPT !.at = at]

Closing(adapter, ok, at) ==
  [at |-> at, closed |-> IF ok THEN process.closed \cup {adapter} ELSE process.closed]

\* SIGINT or SIGTERM: shutdown(signal) starts and issues its notification
Signal ==
  /\ process.at = "running"
  /\ process' = At("notify")
  /\ UNCHANGED <<now, lastMessageCheck, isActive, mappings, savedMessages, topics,
                 out, handlers, faults>>

\* index.js:135-136; a failure is caught at 145-147: process.exit(1)
ShutdownNotify ==
  /\ process.at = "notify"
  /\ \E ok \in BOOLEAN :
       /\ Outcome(ok)
       /\ Issue(Call("tg.sendMessage", 0, <<"Bridge bot is shutting down...">>,
                     "", 0, "shutdown", ok))
       /\ process' = At(IF ok THEN "igDisconnect" ELSE "exited")
  /\ UNCHANGED <<now, lastMessageCheck, isActive, mappings, savedMessages, topics,
                 handlers>>

\* index.js:139, instagram.js:294-306: an error of realtime.disconnect is logged
ShutdownIgDisconnect ==
  /\ process.at = "igDisconnect"
  /\ \E ok \in BOOLEAN :
       /\ Outcome(ok)
       /\ process' = Closing("instagram", ok, "tgStop")
  /\ UNCHANGED <<now, lastMessageCheck, isActive, mappings, savedMessages, topics,
                 out, handlers>>

\* index.js:140, telegram.js:246-256: an error of stopPolling is logged
ShutdownTgStop ==
  /\ process.at = "tgStop"
  /\ \E ok \in BOOLEAN :
       /\ Outcome(ok)
       /\ process' = Closing("telegram", ok, "dbDisconnect")
  /\ UNCHANGED <<now, lastMessageCheck, isActive, mappings, savedMessages, topics,
                 out, handlers>>

\* index.js:141-147, database.js:129-135: client.close(), then process.exit(0);
\* its error is caught: process.exit(1)
ShutdownDbDisconnect ==
  /\ process.at = "dbDisconnect"
  /\ \E ok \in BOOLEAN :
       /\ Outcome(ok)
       /\ process' = Closing("database", ok, "exited")
  /\ UNCHANGED <<now, lastMessageCheck, isActive, mappings, savedMessages, topics,
                 out, handlers>>

ShutdownStep ==
  \/ ShutdownNotify
  \/ ShutdownIgDisconnect
  \/ ShutdownTgStop
  \/ ShutdownDbDisconnect

----------------------------------------------------------------------------
(* core/config.js and index.js: start-up.  While the process starts,       *)
(* process.at names the step of BridgeBot.initialize that comes next,      *)
(* process.env is the environment, process.done lists the steps that have  *)
(* returned, and process.failed, process.message and process.code tell     *)
(* the step that threw, its error message and the exit code.               *)

\* validateConfig's `required`
RequiredKeys ==
  <<"INSTAGRAM_USERNAME", "TELEGRAM_BOT_TOKEN", "TELEGRAM_CHAT_ID", "MONGODB_URI">>

\* !process.env[key]: the variable is not set, or set to the empty string
Falsy(env, key) == key \notin DOMAIN env \/ env[key] = <<>>

\* Array.prototype.join
RECURSIVE join(_, _)
join(list, separator) ==
  IF Len(list) = 0 THEN <<>>
  ELSE IF Len(list) = 1 THEN <<list[1]>>
  ELSE <<list[1], separator>> \o join(Tail(list), separator)

validateConfig_UnsetOnly(env) ==
  LET absent(key) == key \notin DOMAIN env
      missing == SelectSeq(RequiredKeys, absent)
  IN  IF Len(missing) > 0
      THEN [threw |-> TRUE,
            message |-> <<"Missing required environment variables: ">>
                          \o join(missing, ", ")]
      ELSE [threw |-> FALSE, message |-> <<>>]

\* config.js:31-44
validateConfig(env) ==
  LET falsy(key) == Falsy(env, key)
      missing == SelectSeq(RequiredKeys, falsy)
  IN  IF Len(missing) > 0
      THEN [threw |-> TRUE,
            message |-> <<"Missing required environment variables: ">>
                          \o join(missing, ", ")]
      ELSE [threw |-> FALSE, message |-> <<>>]

StartupOrder_ConnectFirst ==
  <<"database.connect", "validateConfig", "telegramBot.initialize",
    "instagramBot.login", "registerCommands", "bridgeModule.initialize",
    "setupCommandHandling", "setupGracefulShutdown", "sendStartupNotification">>

\* index.js:23-57: the steps of BridgeBot.initialize, in order
StartupOrder ==
  <<"validateConfig", "database.connect", "telegramBot.initialize",
    "instagramBot.login", "registerCommands", "bridgeModule.initialize",
    "setupCommandHandling", "setupGracefulShutdown", "sendStartupNotification">>

\* the step after the first Len(done) ones ("running" after the last)
StepAfter(done) ==
  IF Len(done) < Len(StartupOrder) THEN StartupOrder[Len(done) + 1] ELSE "running"

\* the step returned: initialize goes on to the next one
Returned(step) ==
  [process EXCEPT !.done = Append(@, step), !.at = StepAfter(Append(process.done, step))]

\* index.js:59-62: the step threw; the catch logs the message and calls
\* process.exit(1)
Threw(step, message) ==
  [process EXCEPT !.at = "exited", !.failed = step, !.message = message, !.code = 1]

\* index.js:23
StartValidateConfig ==
  /\ process.at = "validateConfig"
  /\ LET result == validateConfig(process.env)
     IN  process' = IF result.threw THEN Threw("validateConfig", result.message)
                    ELSE Returned("validateConfig")
  /\ UNCHANGED <<now, lastMessageCheck, isActive, mappings, savedMessages, topics,
                 out, handlers, faults>>

\* an awaited step of initialize that opens a connection: database.connect
\* (index.js:27), telegramBot.initialize (31), instagramBot.login (35)
StartConnect(step) ==
  /\ process.at = step
  /\ \E ok \in BOOLEAN :
       /\ Outcome(ok)
       /\ process' = IF ok THEN Returned(step) ELSE Threw(step, <<"connection failed">>)
  /\ UNCHANGED <<now, lastMessageCheck, isActive, mappings, savedMessages, topics,
                 out, handlers>>

\* instagram.js:18-23: login throws at once without a user name
StartInstagramLogin ==
  IF Falsy(process.env, "INSTAGRAM_USERNAME")
  THEN /\ process.at = "instagramBot.login"
       /\ process' = Threw("instagramBot.login", <<"INSTAGRAM_USERNAME is missing">>)
       /\ UNCHANGED <<now, lastMessageCheck, isActive, mappings, savedMessages, topics,
                      out, handlers, faults>>
  ELSE StartConnect("instagramBot.login")

\* a step of initialize that registers listeners and cannot fail:
\* registerCommands (index.js:39), bridgeModule.initialize (43),
\* setupCommandHandling (47), setupGracefulShutdown (51)
StartRegister(step) ==
  /\ process.at = step
  /\ process' = Returned(step)
  /\ UNCHANGED <<now, lastMessageCheck, isActive, mappings, savedMessages, topics,
                 out, handlers, faults>>

\* index.js:53-57, 112-127: the notification; its error is only logged
StartNotify ==
  /\ process.at = "sendStartupNotification"
  /\ \E ok \in BOOLEAN :
       /\ Outcome(ok)
       /\ Issue(Call("tg.sendMessage", 0, <<"Bridge Bot Started">>, "", 0, "startup", ok))
  /\ process' = Returned("sendStartupNotification")
  /\ UNCHANGED <<now, lastMessageCheck, isActive, mappings, savedMessages, topics,
                 handlers>>

----------------------------------------------------------------------------
(* core/commands.js: the command registry; index.js:83-108: the command    *)
(* listener from its call of executeCommand.  A name is a sequence of      *)
(* letters.  The registry and what was done with it are fields of          *)
(* `process`: commands (the Map), registered (the registerCommand calls    *)
(* made), executed (the executeCommand calls made and how each ended).     *)

\* String.prototype.toLowerCase, over the letters of the model
lowerChar(c) == IF c = "P" THEN "p" ELSE IF c = "H" THEN "h" ELSE c
toLowerCase(s) == [k \in DOMAIN s |-> lowerChar(s[k])]

\* Map.prototype.set
MapSet(m, key, value) ==
  [x \in DOMAIN m \cup {key} |-> IF x = key THEN value ELSE m[x]]

\* commands.js:29-31: the aliases from the i-th on are set, in order
RECURSIVE setAliases(_, _, _)
setAliases(commands, command, i) ==
  IF i > Len(command.aliases) THEN commands
  ELSE setAliases(MapSet(commands, command.aliases[i], command), command, i + 1)

registerCommand_FirstWins(commands, commandData) ==
  LET command == [name    |-> toLowerCase(commandData.name),
                  handler |-> commandData.handler,
                  aliases |-> [k \in DOMAIN commandData.aliases |->
                                 toLowerCase(commandData.aliases[k])]]
      named   == IF command.name \in DOMAIN commands THEN commands
                 ELSE MapSet(commands, command.name, command)
  IN  setAliases(named, command, 1)

\* CommandManager.registerCommand: the Map after the call
registerCommand(commands, commandData) ==
  LET command == [name    |-> toLowerCase(commandData.name),
                  handler |-> commandData.handler,
                  aliases |-> [k \in DOMAIN commandData.aliases |->
                                 toLowerCase(commandData.aliases[k])]]
  IN  setAliases(MapSet(commands, command.name, command), command, 1)

\* commands.js:49: this.commands.get(commandName.toLowerCase()); <<>> is
\* undefined
getCommand(commands, commandName) ==
  IF toLowerCase(commandName) \in DOMAIN commands
  THEN <<commands[toLowerCase(commandName)]>> ELSE <<>>

\* a module registers a command
RegisterCommand(commandData) ==
  /\ Alive
  /\ Len(process.registered) < MaxRegistrations
  /\ process' = [process EXCEPT !.commands = registerCommand(@, commandData),
                                !.registered = Append(@, commandData)]
  /\ UNCHANGED <<now, lastMessageCheck, isActive, mappings, savedMessages, topics,
                 out, handlers, faults>>

\* how an executeCommand call ended, with the number of registerCommand
\* calls made before it
Executed(commandName, threadId, invoked, result) ==
  [process EXCEPT !.executed =
     Append(@, [name |-> commandName, threadId |-> threadId, invoked |-> invoked,
                result |-> result, registeredBefore |-> Len(process.registered)])]

\* index.js:101-108: the catch of the command listener sends an error notice
\* after the failed call
WithErrorNotice(call) ==
  \E ok \in BOOLEAN :
    /\ ~ok => faults > 1
    /\ faults' = IF ok THEN faults - 1 ELSE faults - 2
    /\ out' = out \o <<call, Call("tg.sendMessage", call.dest, <<"Error executing command">>,
                                  "", call.ev, "commandError", ok)>>

\* index.js:92-99 with commands.js:48-62: executeCommand awaits the handler
\* of the command found (the handlers of core.js and bridge.js answer with a
\* sendMessage and do not catch its error), returns true after it and false
\* when there is none; the listener then sends the 'Unknown command' notice
ExecuteCommand(commandName, threadId) ==
  /\ Alive
  /\ Len(process.executed) < MaxEvents
  /\ LET command == getCommand(process.commands, commandName)
         ev      == Len(process.executed) + 1
     IN  IF command = <<>>
         THEN \/ /\ process' = Executed(commandName, threadId, <<>>, "false")
                 /\ Outcome(TRUE)
                 /\ Issue(Call("tg.sendMessage", threadId,
                               <<"Unknown command: ", commandName>>, "", ev, "unknown", TRUE))
              \/ /\ process' = Executed(commandName, threadId, <<>>, "false")
                 /\ faults > 0
                 /\ WithErrorNotice(Call("tg.sendMessage", threadId,
                       <<"Unknown command: ", commandName>>, "", ev, "unknown", FALSE))
         ELSE \/ /\ process' = Executed(commandName, threadId,
                                        <<command[1].handler>>, "true")
                 /\ Outcome(TRUE)
                 /\ Issue(Call("tg.sendMessage", threadId, <<"reply: ", command[1].name>>,
                               "", ev, "command", TRUE))
              \/ /\ process' = Executed(commandName, threadId,
                                        <<command[1].handler>>, "threw")
                 /\ faults > 0
                 /\ WithErrorNotice(Call("tg.sendMessage", threadId,
                       <<"reply: ", command[1].name>>, "", ev, "command", FALSE))
  /\ UNCHANGED <<now, lastMessageCheck, isActive, mappings, savedMessages, topics,
                 handlers>>

----------------------------------------------------------------------------
(* helpers/formatters.js: the staging directory ./temp.  A file is its     *)
(* name and its mtime; the directory (tempDir), the files elsewhere        *)
(* (outside) and the last sweep (swept) are fields of `process`.           *)

cleanupTempFiles_AtLeast(tempDir, maxAge, at, unreached) ==
  {f \in tempDir : f \in unreached \/ ~(at - f.mtime >= maxAge)}

\* MediaHandler.cleanupTempFiles: the directory after the call made at time
\* `at`.  The loop unlinks each entry it reaches whose age is greater than
\* maxAge; an error of statSync or unlinkSync ends the loop at that entry,
\* which stays with the entries after it (`unreached`; the order of readdirSync
\* is the file system's)
cleanupTempFiles(tempDir, maxAge, at, unreached) ==
  {f \in tempDir : f \in unreached \/ ~(at - f.mtime > maxAge)}

\* formatters.js:145-147: downloadMedia writes the file, replacing one of
\* the same name
DownloadMedia(filename) ==
  /\ Alive
  /\ process' = [process EXCEPT !.tempDir =
                   {f \in @ : f.name # filename} \cup {[name |-> filename, mtime |-> now]}]
  /\ UNCHANGED <<now, lastMessageCheck, isActive, mappings, savedMessages, topics,
                 out, handlers, faults>>

\* a call of cleanupTempFiles; the whole of it is synchronous, and its catch
\* only logs the error
CleanupTempFiles(maxAge) ==
  /\ Alive
  /\ \E ok \in BOOLEAN :
       /\ Outcome(ok)
       /\ \E unreached \in IF ok THEN {{}} ELSE SUBSET process.tempDir \ {{}} :
            LET after == cleanupTempFiles(process.tempDir, maxAge, now, unreached)
            IN  process' = [process EXCEPT
                  !.tempDir = after,
                  !.swept = <<[maxAge |-> maxAge, at |-> now, error |-> ~ok,
                               before |-> process.tempDir, after |-> after]>>]
  /\ UNCHANGED <<now, lastMessageCheck, isActive, mappings, savedMessages, topics,
                 out, handlers>>

----------------------------------------------------------------------------
(* Inbound events. *)

Hi == <<"h", "i">>

\* a realtime event's message, as Instagram delivers it
IgMessage(threadId, userId, known, text, kinds, ms) ==
  [timestamp     |-> ms * 1000,
   user_id       |-> userId,
   inThreadUsers |-> known,
   thread_id     |-> threadId,
   text          |-> text,
   image         |-> "image" \in kinds,
   video         |-> "video" \in kinds,
   voice         |-> "voice" \in kinds]

\* an update's message, as Telegram delivers it; its attachments are of
\* `size` bytes
TgMessageOfSize(chatId, threadId, text, capt, attached, seconds, size) ==
  [chat_id           |-> chatId,
   date              |-> seconds,
   text              |-> text,
   caption           |-> capt,
   from              |-> "operator",
   message_thread_id |-> threadId,
   attached          |-> attached,
   file_size         |-> size]

\* the same with attachments of one kilobyte
TgMessage(chatId, threadId, text, capt, attached, seconds) ==
  TgMessageOfSize(chatId, threadId, text, capt, attached, seconds, 1024)

----------------------------------------------------------------------------
(* The state after start-up.  The store and the Telegram chat outlive the  *)
(* process: a start finds them empty, or as earlier runs left them; Prior   *)
(* is what a run that handled one message of thread t1 leaves behind.      *)

PriorTopics == <<[title |-> <<"@", "alice">>, ev |-> 0]>>

PriorMappings ==
  {[instagramThreadId |-> "t1", telegramThreadId |-> 1,
    instagramUsername |-> <<"alice">>, createdAt |-> 0, lastActivity |-> 0]}

InitWith(store, created, budget) ==
  /\ now = 0
  /\ lastMessageCheck = 0 - StaleWindowMs
  /\ isActive = TRUE
  /\ mappings = store
  /\ savedMessages = {}
  /\ topics = created
  /\ out = <<>>
  /\ handlers = <<>>
  /\ faults = budget
  /\ process = [at |-> "running", closed |-> {}]

Init == InitWith({}, <<>>, MaxFaults)

InitPrior == InitWith(PriorMappings, PriorTopics, MaxFaults)

Events == 1..MaxEvents

IgStep(e) ==
  \/ IgSaveMessage(e)
  \/ IgGetThreadMapping(e)
  \/ IgCreateForumTopic(e)
  \/ IgSaveThreadMapping(e)
  \/ IgWelcome(e)
  \/ IgUpdateThreadActivity(e)
  \/ IgFwdText(e)

IgMediaStep(e) ==
  \/ IgFwdMedia(e)
  \/ IgFwdNotice(e)

TgStep(e) ==
  \/ TgSaveMessage(e)
  \/ TgGetThreadMapping(e)
  \/ TgReject(e)
  \/ TgFwdText(e)

TgMediaStep(e) ==
  \/ TgGetFile(e)
  \/ TgSendMedia(e)
  \/ TgFwdNotice(e)

TgCommandStep(e) ==
  \/ TgCommandReply(e)
  \/ TgCommandError(e)

TgListStep(e) == TgGetAllMappings(e)

\* any step of the handler of event e
HandlerStep(e) ==
  \/ IgStep(e) \/ IgMediaStep(e)
  \/ TgStep(e) \/ TgMediaStep(e) \/ TgCommandStep(e) \/ TgListStep(e)

(* Spec: a fresh start; both adapters, messages of two Instagram threads,  *)
(* of a created and of an orphan topic, commands, one attachment at most.  *)

IgInputs ==
  {IgMessage(t, UserIdOf(t), TRUE, Hi, k, ms) :
     t \in IgThreads, k \in {{}, {"image"}}, ms \in {1, 2}}

TgInputs ==
  {TgMessage(ConfigChatId, th, x, NoText, {}, 0) :
     th \in {1, OrphanTopicId}, x \in {Hi, <<"/", "toggle">>}}
  \cup {TgMessage(ConfigChatId, 1, NoText, NoText, {"photo"}, 0)}

Next ==
  \/ \E m \in IgInputs : IgReceive(m)
  \/ \E m \in TgInputs : TgReceive(m)
  \/ \E e \in Events : IgStep(e) \/ IgMediaStep(e)
  \/ \E e \in Events : TgStep(e) \/ TgMediaStep(e) \/ TgCommandStep(e)

Spec == Init /\ [][Next]_vars

(* SpecTg: the Telegram side alone -- commands with either prefix, as      *)
(* text and as the caption of a photo, and a captioned photo that is no    *)
(* command -- in topic 1, over a store that is empty (the topic is         *)
(* unmapped) or as an earlier run left it (the topic is mapped).           *)

InitTg == InitWith({}, <<>>, MaxFaults) \/ InitPrior

TgTextInputs ==
  {TgMessage(ConfigChatId, 1, x, NoText, {}, 0) :
     x \in {<<"/", "toggle">>, <<".", "ping">>}}

TgCaptionInputs ==
  {TgMessage(ConfigChatId, 1, NoText, c, {"photo"}, 0) : c \in {Hi, <<".", "x">>}}

NextTg ==
  \/ \E m \in TgTextInputs \cup TgCaptionInputs : TgReceive(m)
  \/ \E e \in Events : TgStep(e) \/ TgMediaStep(e) \/ TgCommandStep(e)

SpecTg == InitTg /\ [][NextTg]_vars

(* SpecOrphan: messages posted in a topic the bridge never created, with   *)
(* and without an attachment, while a message of an Instagram thread is    *)
(* being provisioned, so that the store changes under them.                *)

TgOrphanInputs ==
  {TgMessage(ConfigChatId, OrphanTopicId, x, NoText, a, 0) :
     x \in {Hi, NoText}, a \in {{}, {"photo"}}}

IgOtherThreadInputs == {IgMessage("t2", UserIdOf("t2"), TRUE, Hi, {}, 1)}

NextOrphan ==
  \/ \E m \in TgOrphanInputs : TgReceive(m)
  \/ \E m \in IgOtherThreadInputs : IgReceive(m)
  \/ \E e \in Events : TgSaveMessage(e) \/ TgGetThreadMapping(e) \/ TgReject(e)
  \/ \E e \in Events : IgStep(e)

SpecOrphan == Init /\ [][NextOrphan]_vars

(* SpecMedia: attachments in both directions, up to three in one message, *)
(* in a thread and a topic that an earlier run has mapped.                 *)

IgMediaInputs ==
  {IgMessage("t1", UserIdOf("t1"), TRUE, x, {"image", "video", "voice"}, 1) :
     x \in {Hi, NoText}}

TgMediaInputs ==
  {TgMessage(ConfigChatId, 1, NoText, c, a, 0) :
     c \in {Hi, NoText}, a \in {{"photo", "video", "voice"}, {"voice"}}}

NextMedia ==
  \/ \E m \in IgMediaInputs : IgReceive(m)
  \/ \E m \in TgMediaInputs : TgReceive(m)
  \/ \E e \in Events : IgStep(e) \/ IgMediaStep(e)
  \/ \E e \in Events : TgStep(e) \/ TgMediaStep(e)

SpecMedia == InitPrior /\ [][NextMedia]_vars

(* SpecClock: time passes; text messages of a mapped thread and topic      *)
(* arrive carrying any timestamp up to the present.                        *)

PastTicks == {k \in 0..MaxTicks : k * TickMs <= now}

IgClockInputs ==
  {IgMessage("t1", UserIdOf("t1"), TRUE, Hi, {}, k * TickMs) : k \in PastTicks}

TgClockInputs ==
  {TgMessage(ConfigChatId, 1, Hi, NoText, {}, (k * TickMs) \div 1000) : k \in PastTicks}

NextClock ==
  \/ Tick
  \/ \E m \in IgClockInputs : IgReceive(m)
  \/ \E m \in TgClockInputs : TgReceive(m)
  \/ \E e \in Events : IgStep(e)
  \/ \E e \in Events : TgStep(e)

SpecClock == InitPrior /\ [][NextClock]_vars

(* SpecEmpty: messages that carry neither text nor an attachment, of an   *)
(* unmapped Instagram thread and in a mapped and an orphan topic.          *)

IgEmptyInputs ==
  {IgMessage("t1", UserIdOf("t1"), TRUE, NoText, {}, ms) : ms \in {1, 2}}

TgEmptyInputs ==
  {TgMessage(ConfigChatId, th, NoText, NoText, {}, 0) : th \in {1, OrphanTopicId}}

NextEmpty ==
  \/ \E m \in IgEmptyInputs : IgReceive(m)
  \/ \E m \in TgEmptyInputs : TgReceive(m)
  \/ \E e \in Events :
       \/ IgSaveMessage(e)
       \/ IgGetThreadMapping(e)
       \/ IgCreateForumTopic(e)
       \/ IgSaveThreadMapping(e)
       \/ IgWelcome(e)
       \/ IgUpdateThreadActivity(e)
  \/ \E e \in Events : TgSaveMessage(e) \/ TgGetThreadMapping(e) \/ TgReject(e)

SpecEmpty == Init /\ [][NextEmpty]_vars

(* SpecTitle: first messages of two Instagram threads, whose sender the   *)
(* event's thread lists or does not list.                                  *)

IgSenderInputs ==
  {IgMessage(t, UserIdOf(t), known, Hi, {}, ms) :
     t \in IgThreads, known \in BOOLEAN, ms \in {1, 2}}

NextTitle ==
  \/ \E m \in IgSenderInputs : IgReceive(m)
  \/ \E e \in Events : IgStep(e)

SpecTitle == Init /\ [][NextTitle]_vars

(* SpecShutdown: a termination signal arrives while text messages of a   *)
(* mapped thread and topic arrive and are handled.                         *)

IgTextInputs ==
  {IgMessage("t1", UserIdOf("t1"), TRUE, Hi, {}, ms) : ms \in {1, 2}}

TgPlainInputs == {TgMessage(ConfigChatId, 1, Hi, NoText, {}, 0)}

NextShutdown ==
  \/ Signal
  \/ ShutdownStep
  \/ \E m \in IgTextInputs : IgReceive(m)
  \/ \E m \in TgPlainInputs : TgReceive(m)
  \/ \E e \in Events : IgStep(e)
  \/ \E e \in Events : TgStep(e)

SpecShutdown == InitPrior /\ [][NextShutdown]_vars

(* SpecFault: text messages of a mapped thread and topic and a command,  *)
(* while external calls fail.                                              *)

TgPingInputs == {TgMessage(ConfigChatId, 1, <<".", "ping">>, NoText, {}, 0)}

NextFault ==
  \/ \E m \in IgTextInputs : IgReceive(m)
  \/ \E m \in TgPlainInputs \cup TgPingInputs : TgReceive(m)
  \/ \E e \in Events : IgStep(e)
  \/ \E e \in Events : TgStep(e) \/ TgCommandStep(e)

SpecFault == InitPrior /\ [][NextFault]_vars

(* SpecToggle: /toggle commands among text messages of both platforms,  *)
(* of a thread and in a topic that an earlier run has mapped.              *)

TgToggleInputs == {TgMessage(ConfigChatId, 1, <<"/", "toggle">>, NoText, {}, 0)}

NextToggle ==
  \/ \E m \in IgTextInputs : IgReceive(m)
  \/ \E m \in TgPlainInputs \cup TgToggleInputs : TgReceive(m)
  \/ \E e \in Events : IgStep(e)
  \/ \E e \in Events : TgStep(e) \/ TgCommandStep(e)

SpecToggle == InitPrior /\ [][NextToggle]_vars

(* SpecScope: text messages and /toggle commands posted in the          *)
(* configured chat and in another chat, under the id of a mapped topic.    *)

TgScopeInputs ==
  {TgMessage(c, 1, x, NoText, {}, 0) :
     c \in {ConfigChatId, OtherChatId}, x \in {Hi, <<"/", "toggle">>}}

NextScope ==
  \/ \E m \in TgScopeInputs : TgReceive(m)
  \/ \E e \in Events : TgStep(e) \/ TgCommandStep(e)

SpecScope == InitPrior /\ [][NextScope]_vars

(* SpecUnknown: in the mapped topic 1, a captioned Telegram message that  *)
(* carries a photo next to a sticker, which forwardToInstagram has no send *)
(* for, and a voice message alone, which it has none for either.           *)

TgUnknownInputs ==
  {TgMessage(ConfigChatId, 1, NoText, Hi, {"photo", "sticker"}, 0),
   TgMessage(ConfigChatId, 1, NoText, NoText, {"voice"}, 0)}

NextUnknown ==
  \/ \E m \in TgUnknownInputs : TgReceive(m)
  \/ \E e \in Events : TgStep(e) \/ TgMediaStep(e)

SpecUnknown == InitPrior /\ [][NextUnknown]_vars

(* SpecSize: photos, with and without a caption, posted in the mapped    *)
(* topic 1, whose size is the ceiling, and one byte more.                  *)

TgSizeInputs ==
  {TgMessageOfSize(ConfigChatId, 1, NoText, c, {"photo"}, 0, size) :
     c \in {Hi, NoText}, size \in {MaxMediaSize, MaxMediaSize + 1}}

NextSize ==
  \/ \E m \in TgSizeInputs : TgReceive(m)
  \/ \E e \in Events : TgStep(e) \/ TgMediaStep(e)

SpecSize == InitPrior /\ [][NextSize]_vars

(* SpecStartup: the process starts, in every environment that sets each   *)
(* of the four required variables and INSTAGRAM_PASSWORD to a value, to    *)
(* the empty string, or not at all.                                        *)

EnvKeys ==
  {"INSTAGRAM_USERNAME", "TELEGRAM_BOT_TOKEN", "TELEGRAM_CHAT_ID", "MONGODB_URI",
   "INSTAGRAM_PASSWORD"}

Envs == UNION {[set -> {<<>>, <<"value">>}] : set \in SUBSET EnvKeys}

InitStartup ==
  /\ now = 0
  /\ lastMessageCheck = 0 - StaleWindowMs
  /\ isActive = TRUE
  /\ mappings \in {{}, PriorMappings}
  /\ savedMessages = {}
  /\ topics = IF mappings = {} THEN <<>> ELSE PriorTopics
  /\ out = <<>>
  /\ handlers = <<>>
  /\ faults = MaxFaults
  /\ \E env \in Envs :
       process = [at |-> StepAfter(<<>>), closed |-> {}, env |-> env, done |-> <<>>,
                  failed |-> "", message |-> <<>>, code |-> 0]

NextStartup ==
  \/ StartValidateConfig
  \/ \E step \in {"database.connect", "telegramBot.initialize"} : StartConnect(step)
  \/ StartInstagramLogin
  \/ \E step \in {"registerCommands", "bridgeModule.initialize",
                  "setupCommandHandling", "setupGracefulShutdown"} : StartRegister(step)
  \/ StartNotify

SpecStartup == InitStartup /\ [][NextStartup]_vars

(* SpecCommands: the bridge's commands /bridge, /threads and /toggle,    *)
(* posted in topic 1 while a message of the unmapped Instagram thread t2   *)
(* is provisioned, so that the store changes between a command's steps.    *)

TgBridgeCommandInputs ==
  {TgMessage(ConfigChatId, 1, <<"/", c>>, NoText, {}, 0) :
     c \in {"bridge", "threads", "toggle"}}

NextCommands ==
  \/ \E m \in IgOtherThreadInputs : IgReceive(m)
  \/ \E m \in TgBridgeCommandInputs : TgReceive(m)
  \/ \E e \in Events : IgStep(e)
  \/ \E e \in Events : TgSaveMessage(e) \/ TgListStep(e) \/ TgCommandStep(e)

SpecCommands == InitPrior /\ [][NextCommands]_vars

(* SpecList: /threads commands posted in topic 1 while time passes and a  *)
(* message of the unmapped Instagram thread t2 is provisioned, so that the *)
(* store holds two mappings whose lastActivity differs.                    *)

TgThreadsInputs == {TgMessage(ConfigChatId, 1, <<"/", "threads">>, NoText, {}, s) : s \in {0, 30}}

IgLaterInputs == {IgMessage("t2", UserIdOf("t2"), TRUE, Hi, {}, 30)}

NextList ==
  \/ Tick
  \/ \E m \in IgLaterInputs : IgReceive(m)
  \/ \E m \in TgThreadsInputs : TgReceive(m)
  \/ \E e \in Events : IgStep(e)
  \/ \E e \in Events : TgSaveMessage(e) \/ TgListStep(e) \/ TgCommandStep(e)

SpecList == InitPrior /\ [][NextList]_vars

(* SpecOrder: messages of a mapped thread and in its topic that the      *)
(* other platform can take whole: from Instagram a text with two           *)
(* attachments, from Telegram a captioned photo.                           *)

IgOrderInputs == {IgMessage("t1", UserIdOf("t1"), TRUE, Hi, {"image", "video"}, 1)}

TgOrderInputs == {TgMessage(ConfigChatId, 1, NoText, Hi, {"photo"}, 0)}

NextOrder ==
  \/ \E m \in IgOrderInputs : IgReceive(m)
  \/ \E m \in TgOrderInputs : TgReceive(m)
  \/ \E e \in Events : IgStep(e) \/ IgMediaStep(e)
  \/ \E e \in Events : TgStep(e) \/ TgMediaStep(e)

SpecOrder == InitPrior /\ [][NextOrder]_vars

(* SpecReplay: text messages of two Instagram threads, one of them       *)
(* mapped, with two timestamps; the realtime connection may deliver a      *)
(* message again, through its other event or as a replay, and may deliver  *)
(* the later message first.                                                *)

IgReplayInputs ==
  {IgMessage(t, UserIdOf(t), TRUE, Hi, {}, ms) : t \in IgThreads, ms \in {1, 2}}

NextReplay ==
  \/ \E m \in IgReplayInputs : IgReceive(m)
  \/ \E e \in Events : IgStep(e)

SpecReplay == InitPrior /\ [][NextReplay]_vars

(* SpecLookup: one message of a mapped thread and one in its topic, while *)
(* the store may fail once for each of them.                               *)

IgLookupInputs == {IgMessage("t1", UserIdOf("t1"), TRUE, Hi, {}, 1)}

InitLookup == InitWith(PriorMappings, PriorTopics, MaxFaults + 1)

NextLookup ==
  \/ \E m \in IgLookupInputs : IgReceive(m)
  \/ \E m \in TgPlainInputs : TgReceive(m)
  \/ \E e \in Events : IgStep(e)
  \/ \E e \in Events : TgStep(e)

SpecLookup == InitLookup /\ [][NextLookup]_vars

(* SpecSelf: text messages of both threads, written by the counterpart   *)
(* or by the bridged account itself.                                       *)

IgSelfInputs ==
  UNION {{IgMessage(t, u, TRUE, Hi, {}, ms) : u \in {SelfPk, UserIdOf(t)}, ms \in {1, 2}} :
           t \in IgThreads}

NextSelf ==
  \/ \E m \in IgSelfInputs : IgReceive(m)
  \/ \E e \in Events : IgStep(e)

SpecSelf == InitPrior /\ [][NextSelf]_vars

(* SpecWindow: the process starts with every variable set, while a text  *)
(* message of the mapped thread t1 (and its replay) and a message in its   *)
(* topic arrive as soon as the adapters listen.                            *)

InitWindow ==
  /\ InitStartup
  /\ mappings = PriorMappings
  /\ process.env = [k \in EnvKeys |-> <<"value">>]

NextWindow ==
  \/ NextStartup
  \/ \E m \in IgLookupInputs : IgReceive(m)
  \/ \E m \in TgPlainInputs : TgReceive(m)
  \/ \E e \in Events : IgStep(e)
  \/ \E e \in Events : TgStep(e)

SpecWindow == InitWindow /\ [][NextWindow]_vars

(* SpecRegistry: modules register the commands 'h' and 'P', the latter   *)
(* twice, once with the alias 'H', while commands are executed from topic  *)
(* 1 under names in the other case and under a name nobody registers.      *)

CommandData ==
  {[name |-> <<"h">>, handler |-> "first",  aliases |-> <<>>],
   [name |-> <<"P">>, handler |-> "first",  aliases |-> <<>>],
   [name |-> <<"P">>, handler |-> "second", aliases |-> << <<"H">> >>]}

ExecutedNames == {<<"p">>, <<"H">>, <<"x">>}

InitRegistry ==
  /\ now = 0
  /\ lastMessageCheck = 0 - StaleWindowMs
  /\ isActive = TRUE
  /\ mappings = PriorMappings
  /\ savedMessages = {}
  /\ topics = PriorTopics
  /\ out = <<>>
  /\ handlers = <<>>
  /\ faults = MaxFaults
  /\ process = [at |-> "running", closed |-> {}, commands |-> <<>>,
                registered |-> <<>>, executed |-> <<>>]

NextRegistry ==
  \/ \E d \in CommandData : RegisterCommand(d)
  \/ \E n \in ExecutedNames : ExecuteCommand(n, 1)

SpecRegistry == InitRegistry /\ [][NextRegistry]_vars

(* SpecSweep: the staging directory holds files of earlier runs, just    *)
(* older than the default maxAge, exactly as old, or new; files are        *)
(* staged and the directory is swept while time passes.                    *)

TempNames == {"a", "b"}

TempFiles ==
  {[name |-> n, mtime |-> m] :
     n \in TempNames, m \in {0 - TempMaxAge - 1, 0 - TempMaxAge, 0}}

OutsideFiles == {[name |-> "cookies.json", mtime |-> 0 - TempMaxAge - 1]}

MaxAges == {TempMaxAge, TickMs}

InitSweep ==
  /\ now = 0
  /\ lastMessageCheck = 0 - StaleWindowMs
  /\ isActive = TRUE
  /\ mappings = PriorMappings
  /\ savedMessages = {}
  /\ topics = PriorTopics
  /\ out = <<>>
  /\ handlers = <<>>
  /\ faults = MaxFaults
  /\ \E dir \in SUBSET TempFiles :
       /\ \A f, g \in dir : f.name = g.name => f = g
       /\ process = [at |-> "running", closed |-> {}, tempDir |-> dir,
                     outside |-> OutsideFiles, swept |-> <<>>]

NextSweep ==
  \/ Tick
  \/ \E n \in TempNames : DownloadMedia(n)
  \/ \E maxAge \in MaxAges : CleanupTempFiles(maxAge)

SpecSweep == InitSweep /\ [][NextSweep]_vars

----------------------------------------------------------------------------
(* What the properties read. *)

Terminal == {"done", "stale", "self", "wrongChat"}

IsIg(e) == handlers[e].msg.platform = "instagram"
IsTg(e) == handlers[e].msg.platform = "telegram"

Finished(e) == handlers[e].pc \in Terminal
AllFinished == \A e \in DOMAIN handlers : Finished(e)

\* no external call has failed so far
NoFault == faults = MaxFaults

\* the calls event e caused, as positions of `out`
CallsOf(e) == {i \in DOMAIN out : out[i].ev = e}

ToInstagram(c) == c.api \in {"ig.sendMessage", "ig.sendMedia"}
ToTelegram(c) == ~ToInstagram(c)

\* the topics created while handling messages of Instagram thread t
TopicsCreatedFor(t) ==
  {k \in DOMAIN topics :
     topics[k].ev # 0 /\ handlers[topics[k].ev].msg.threadId = t}

MappingsOf(t) == Matching(mappings, "instagramThreadId", t)

\* the Instagram threads whose messages were routed
RoutedThreads ==
  {handlers[e].msg.threadId : e \in {x \in DOMAIN handlers : IsIg(x) /\ handlers[x].routed}}

----------------------------------------------------------------------------
(* C1 -- Idempotent provisioning: two messages of the same unmapped        *)
(* Instagram thread whose handling overlaps (the second is received before *)
(* the first has stored the mapping) leave exactly one created topic and   *)
(* exactly one stored mapping for that thread.                             *)
C1_IdempotentProvisioning ==
  \A a, b \in DOMAIN handlers :
    ( /\ a < b /\ IsIg(a) /\ IsIg(b)
      /\ handlers[a].msg.threadId = handlers[b].msg.threadId
      /\ handlers[a].routed /\ handlers[b].routed
      /\ ~handlers[a].mappedAtReceipt /\ ~handlers[b].mappedAtReceipt
      /\ Finished(a) /\ Finished(b) /\ NoFault )
    => /\ Cardinality(TopicsCreatedFor(handlers[a].msg.threadId)) = 1
       /\ Cardinality(MappingsOf(handlers[a].msg.threadId)) = 1

(* C2 -- Bijection invariant: no two stored mappings share an Instagram    *)
(* thread, no two share a Telegram topic, and once the messages of N       *)
(* distinct threads have been handled the store holds exactly N mappings   *)
(* and exactly N topics have been created.                                 *)
C2_Bijection ==
  /\ \A d1, d2 \in mappings :
       (d1.instagramThreadId = d2.instagramThreadId
          \/ d1.telegramThreadId = d2.telegramThreadId) => d1 = d2
  /\ (AllFinished /\ NoFault)
       => /\ Cardinality(mappings) = Cardinality(RoutedThreads)
          /\ Len(topics) = Cardinality(RoutedThreads)

(* C3 -- Store create is insert-if-absent: saveThreadMapping for a thread  *)
(* that already has a mapping fails (the handler takes its error path) and *)
(* leaves the store as it was.                                             *)
C3_CreateIsInsertIfAbsent ==
  [][\A e \in DOMAIN handlers :
       ( /\ handlers[e].pc = "saveThreadMapping"
         /\ handlers'[e].pc # "saveThreadMapping"
         /\ MappingsOf(handlers[e].msg.threadId) # {} )
       => (mappings' = mappings /\ handlers'[e].pc = "done")]_vars

(* C4 -- Mapping lifecycle: a stored mapping is never removed, and its     *)
(* destinationTopicId and createdAt never change.                          *)
C4_MappingLifecycle ==
  [][\A d \in mappings : \E d2 \in mappings' :
       /\ d2.instagramThreadId = d.instagramThreadId
       /\ d2.telegramThreadId = d.telegramThreadId
       /\ d2.createdAt = d.createdAt]_vars

(* C5 -- Order preservation: of two messages of one Instagram thread, every *)
(* outbound call for the one received first is issued before any outbound  *)
(* call for the one received second.                                       *)
C5_OrderPreservation ==
  \A i, j \in DOMAIN out :
    ( /\ IsIg(out[i].ev) /\ IsIg(out[j].ev)
      /\ handlers[out[i].ev].msg.threadId = handlers[out[j].ev].msg.threadId
      /\ out[i].ev < out[j].ev
      /\ NoFault )
    => i < j

(* C9 -- First-message scenario: one text message of an unmapped thread t  *)
(* from sender h, handled alone and without failure, leaves one topic      *)
(* titled from h, one mapping of t with messageCount = 1, and one text     *)
(* call into that topic: a header naming h, then the body.                 *)
C9_FirstMessageScenario ==
  ( /\ Len(handlers) = 1 /\ IsIg(1) /\ handlers[1].routed /\ handlers[1].pc = "done"
    /\ handlers[1].raw.text # NoText /\ NoFault )
  => LET t == handlers[1].raw.thread_id
         h == UsernameOf(handlers[1].raw.user_id)
         texts == {i \in DOMAIN out : out[i].role = "text"}
     IN  /\ Len(topics) = 1
         /\ topics[1].title = <<"@">> \o h
         /\ Cardinality(mappings) = 1
         /\ \A d \in mappings :
              /\ d.instagramThreadId = t
              /\ "messageCount" \in DOMAIN d
              /\ d.messageCount = 1
         /\ Cardinality(texts) = 1
         /\ \A i \in texts :
              /\ out[i].api = "tg.sendMessage"
              /\ out[i].dest = 1
              /\ out[i].ok
              /\ out[i].text = <<"<b>@">> \o h \o <<"</b>", "\n">> \o handlers[1].raw.text

----------------------------------------------------------------------------
\* the text a Telegram message shows: its text, or its caption
ShownText(raw) == IF raw.text # NoText THEN raw.text ELSE raw.caption

CommandPrefixed(raw) ==
  Len(ShownText(raw)) > 0 /\ ShownText(raw)[1] \in {"/", "."}

(* C8 -- Command exclusion: a Telegram message whose text or caption       *)
(* begins with '/' or '.' causes no call to Instagram, neither for its     *)
(* text nor for its attachments, whether or not its topic is mapped.       *)
C8_CommandExclusion ==
  \A i \in DOMAIN out :
    ToInstagram(out[i]) => ~CommandPrefixed(handlers[out[i].ev].raw)

\* a photo captioned with a '.'-command, posted in a mapped topic while the
\* bridge is active, has been handled and answered by the command listener
C8_Witness ==
  \E e \in DOMAIN handlers :
    /\ IsTg(e) /\ handlers[e].pc = "done" /\ handlers[e].routed
    /\ handlers[e].raw.caption = <<".", "x">>
    /\ handlers[e].msg.media # <<>>
    /\ handlers[e].mappedAtReceipt
    /\ Matching(mappings, "telegramThreadId", handlers[e].raw.message_thread_id) # {}
    /\ \E i \in CallsOf(e) : out[i].role = "command"

\* the handler of event e acts in this step (it starts, or it moves on)
Acts(e) ==
  /\ e \in DOMAIN handlers'
  /\ e \in DOMAIN handlers => handlers'[e] # handlers[e]

\* event e is a Telegram message, no command, posted in a topic
OrphanCandidate(h) ==
  /\ h.msg.platform = "telegram"
  /\ h.raw.message_thread_id # 0
  /\ ~CommandPrefixed(h.raw)

Unmapped(topic) == Matching(mappings, "telegramThreadId", topic) = {}

(* C10 -- Orphan-topic rejection: a non-command Telegram message routed    *)
(* while its topic has no mapping causes no call to Instagram and exactly  *)
(* one rejection notice, issued into that same topic; and no step of its   *)
(* handling changes the thread-mapping store.                              *)
C10_OrphanRejection ==
  /\ [](\A e \in DOMAIN handlers :
          ( /\ OrphanCandidate(handlers[e]) /\ handlers[e].routed
            /\ handlers[e].pc = "done"
            /\ ~handlers[e].mappedAtReceipt
            /\ Unmapped(handlers[e].raw.message_thread_id) )
          => /\ \A i \in CallsOf(e) :
                  /\ out[i].role = "reject"
                  /\ out[i].api = "tg.sendMessage"
                  /\ out[i].dest = handlers[e].raw.message_thread_id
             /\ Cardinality(CallsOf(e)) = 1)
  /\ [][\A e \in DOMAIN handlers' :
          (Acts(e) /\ OrphanCandidate(handlers'[e])) => mappings' = mappings]_vars

\* an orphan-topic message with a photo has been rejected while a mapping
\* of another thread was stored
C10_Witness ==
  \E e \in DOMAIN handlers :
    /\ OrphanCandidate(handlers[e]) /\ handlers[e].routed /\ handlers[e].pc = "done"
    /\ handlers[e].raw.message_thread_id = OrphanTopicId
    /\ handlers[e].msg.media # <<>>
    /\ \E i \in CallsOf(e) : out[i].role = "reject" /\ out[i].ok
    /\ mappings # {}

----------------------------------------------------------------------------
\* every external call that failed so far was the send of an attachment
OnlyMediaSendsFailed ==
  MaxFaults - faults =
    Cardinality({i \in DOMAIN out : out[i].role = "media" /\ ~out[i].ok})

\* event e was forwarded: its handler got past the lookup with a mapping
Forwarded(e) ==
  /\ handlers[e].routed /\ handlers[e].pc = "done"
  /\ handlers[e].mapping # <<>>

CallsFor(e, role, type) ==
  {i \in CallsOf(e) : out[i].role = role /\ out[i].media = type}

(* C6 -- Partial-failure isolation, in both directions: of a forwarded     *)
(* message in which only sends of attachments fail, the text body is       *)
(* delivered, every attachment whose send does not fail is delivered, and  *)
(* exactly one failure notice is sent for each attachment whose send fails. *)
C6_PartialFailureIsolation ==
  \A e \in DOMAIN handlers :
    (Forwarded(e) /\ OnlyMediaSendsFailed)
    => /\ handlers[e].msg.text # NoText
            => Cardinality({i \in CallsFor(e, "text", "") : out[i].ok}) = 1
       /\ \A k \in DOMAIN handlers[e].msg.media :
            LET type == handlers[e].msg.media[k].type
                sent == CallsFor(e, "media", type)
                notices == CallsFor(e, "notice", type)
            IN  /\ Cardinality(sent) = 1
                /\ \A i \in sent :
                     IF out[i].ok THEN notices = {}
                     ELSE Cardinality(notices) = 1 /\ \A j \in notices : out[j].ok

\* the time an event carries, in milliseconds
EventTime(h) ==
  IF h.msg.platform = "instagram" THEN h.raw.timestamp \div 1000
  ELSE h.raw.date * 1000

(* C7 -- Freshness filter: an event of either platform that is older than  *)
(* the staleness window (60 s) when it is received is never forwarded (it  *)
(* causes no outbound call) and never causes a topic to be created.        *)
C7_FreshnessFilter ==
  \A e \in DOMAIN handlers :
    handlers[e].receivedAt - EventTime(handlers[e]) > StaleWindowMs
    => /\ CallsOf(e) = {}
       /\ \A k \in DOMAIN topics : topics[k].ev # e

----------------------------------------------------------------------------
\* the touch of event e's handler takes effect in this step
Touches(e) ==
  /\ handlers[e].pc = "updateThreadActivity"
  /\ handlers'[e].pc # "updateThreadActivity"
  /\ faults' = faults

HasCount(d) == "messageCount" \in DOMAIN d

(* C11 -- Touch semantics: updateThreadActivity on a thread that has a     *)
(* mapping sets its lastActivity to the current time and raises its        *)
(* messageCount by exactly one; on a thread without a mapping it leaves    *)
(* the store as it was.                                                    *)
C11_TouchSemantics ==
  [][\A e \in DOMAIN handlers :
       Touches(e)
       => LET t == handlers[e].msg.threadId
          IN  IF MappingsOf(t) = {} THEN mappings' = mappings
              ELSE \A d \in MappingsOf(t) :
                     \E d2 \in mappings' :
                        /\ d2.instagramThreadId = t
                        /\ d2.lastActivity = now
                        /\ HasCount(d) /\ HasCount(d2)
                        /\ d2.messageCount = d.messageCount + 1]_vars

----------------------------------------------------------------------------
\* a call that forwards a message: its text, an attachment, or the notice
\* that stands for an attachment
ForwardSend(c) == c.role \in {"text", "media", "notice"}

(* C12 -- Touch before forwarding: in both directions, when a forwarding   *)
(* call of a message is issued, the message's handler has touched its      *)
(* mapping (called updateThreadActivity) exactly once.                     *)
C12_TouchBeforeForward ==
  \A i \in DOMAIN out :
    ForwardSend(out[i]) => handlers[out[i].ev].touches = 1

----------------------------------------------------------------------------
\* the message has neither text nor any attachment
Empty(h) == h.msg.text = NoText /\ h.msg.media = <<>>

(* C13 -- Empty message: in both directions a message with neither text    *)
(* nor attachment causes no outbound call of any kind (no forwarded text,  *)
(* no welcome, no rejection notice), creates no topic, and neither creates *)
(* nor touches a mapping.                                                  *)
C13_EmptyIsNoOp ==
  /\ [](\A e \in DOMAIN handlers :
          Empty(handlers[e])
          => /\ CallsOf(e) = {}
             /\ \A k \in DOMAIN topics : topics[k].ev # e
             /\ handlers[e].touches = 0)
  /\ [][\A e \in DOMAIN handlers' :
          (Acts(e) /\ Empty(handlers'[e])) => mappings' = mappings]_vars

----------------------------------------------------------------------------
\* the name the title of event e's topic is to carry
TitleNameOf(e) ==
  IF handlers[e].raw.inThreadUsers THEN UsernameOf(handlers[e].raw.user_id)
  ELSE <<"user_", handlers[e].raw.user_id>>

(* C14 -- Topic title: every topic created by provisioning has a non-empty *)
(* title, which names ('@', then the name) the sender's username when the  *)
(* event's thread users list the sender, and the placeholder               *)
(* user_<senderId> otherwise.                                              *)
C14_TopicTitled ==
  \A k \in DOMAIN topics :
    topics[k].ev # 0
    => /\ topics[k].title # <<>>
       /\ TitleNameOf(topics[k].ev) # <<>>
       /\ topics[k].title = <<"@">> \o TitleNameOf(topics[k].ev)

\* a topic was created for a sender the event's thread does not list, and one
\* for a sender it lists
C14_Witness ==
  /\ \E k \in DOMAIN topics :
       /\ topics[k].ev # 0 /\ ~handlers[topics[k].ev].raw.inThreadUsers
       /\ topics[k].title = <<"@", "user_", handlers[topics[k].ev].raw.user_id>>
  /\ \E k \in DOMAIN topics :
       /\ topics[k].ev # 0 /\ handlers[topics[k].ev].raw.inThreadUsers
       /\ topics[k].title = <<"@", "alice">>

----------------------------------------------------------------------------
\* the events of one adapter whose handling has started and not yet finished
InFlight(platform) ==
  {e \in DOMAIN handlers : handlers[e].msg.platform = platform /\ ~Finished(e)}

(* C15 -- Serialized per-adapter processing: of each adapter, at most one  *)
(* inbound message at a time is between the start of its handling and the *)
(* end of its routing and forwarding.                                      *)
C15_SerializedPerAdapter ==
  \A platform \in {"instagram", "telegram"} : Cardinality(InFlight(platform)) <= 1

----------------------------------------------------------------------------
AllConnections == {"instagram", "telegram", "database"}

(* C17 -- Graceful exit ordering: after a termination signal no new        *)
(* inbound event starts routing; every message that was being routed has   *)
(* completed or failed before a store or adapter connection is closed; and *)
(* all connections are closed before the process exits.                    *)
C17_GracefulExit ==
  /\ []((process.closed # {} \/ process.at = "exited")
          => \A e \in DOMAIN handlers : handlers[e].routed => Finished(e))
  /\ [](process.at = "exited" => process.closed = AllConnections)
  /\ [][process.at # "running"
          => \A e \in DOMAIN handlers' :
               handlers'[e].routed => (e \in DOMAIN handlers /\ handlers[e].routed)]_vars

----------------------------------------------------------------------------
\* every call that has failed so far was a platform call of an event other
\* than b
OnlyOthersFailed(b) ==
  MaxFaults - faults = Cardinality({i \in DOMAIN out : ~out[i].ok /\ out[i].ev # b})

\* event b was handled as a message is when nothing fails: forwarded to the
\* other platform or, a command, answered
ProcessedNormally(b) ==
  IF IsIg(b)
  THEN \E i \in CallsOf(b) : out[i].role = "text" /\ out[i].ok /\ ToTelegram(out[i])
  ELSE IF isCommand(handlers[b].msg.text)
  THEN \E i \in CallsOf(b) : out[i].role = "command" /\ out[i].ok
  ELSE \E i \in CallsOf(b) : out[i].role = "text" /\ out[i].ok /\ ToInstagram(out[i])

----------------------------------------------------------------------------
IsToggle(e) == IsTg(e) /\ handlers[e].msg.text = <<"/", "toggle">>

(* C18 -- No cross-message cancellation: a step of another event (another  *)
(* inbound message, or a /toggle that disables the bridge) changes nothing *)
(* of a message's handler; a message that entered routing can always take  *)
(* its next step; and when no call fails it ends with its send issued.     *)
C18_NoCancellation ==
  /\ [](\A e \in DOMAIN handlers :
          /\ (handlers[e].routed /\ ~Finished(e)) => ENABLED HandlerStep(e)
          /\ (handlers[e].routed /\ handlers[e].pc = "done" /\ NoFault /\ ~IsToggle(e))
               => \E i \in CallsOf(e) :
                    IF IsIg(e) THEN out[i].role = "text" /\ ToTelegram(out[i])
                    ELSE \/ out[i].role = "text" /\ ToInstagram(out[i])
                         \/ out[i].role = "reject")
  /\ [][\A e \in DOMAIN handlers : \A a \in DOMAIN handlers' :
          (a # e /\ Acts(a)) => handlers'[e] = handlers[e]]_vars

\* an Instagram message entered routing, a /toggle then disabled the bridge
\* and was answered, and the message's text was sent after that
C18_Witness ==
  /\ ~isActive
  /\ \E e, g \in DOMAIN handlers :
       /\ IsIg(e) /\ handlers[e].routed /\ handlers[e].pc = "done"
       /\ IsToggle(g)
       /\ \E i \in CallsOf(g), j \in CallsOf(e) :
            /\ i < j
            /\ out[i].role = "command"
            /\ out[j].role = "text" /\ out[j].ok

\* the adapter hands event e to the registered listeners in this step
HandsOver(e) ==
  /\ handlers[e].pc \in {"saveMessage", "tgSaveMessage"}
  /\ handlers'[e].pc # handlers[e].pc

(* C19 -- Bridge off: a message of either platform that reaches the        *)
(* bridge's listener while the bridge is off is not routed: it is never    *)
(* forwarded or rejected, creates no topic, and neither creates nor        *)
(* touches a mapping.  A command is still executed while the bridge is     *)
(* off, and /toggle then turns it on again.                                *)
C19_BridgeOff ==
  /\ [](\A e \in DOMAIN handlers :
          ~handlers[e].routed
          => /\ \A i \in CallsOf(e) : out[i].role \in {"command", "commandError"}
             /\ \A k \in DOMAIN topics : topics[k].ev # e
             /\ handlers[e].touches = 0
             /\ handlers[e].mapping = <<>>)
  /\ [][\A e \in DOMAIN handlers :
          (~isActive /\ HandsOver(e))
          => /\ ~handlers'[e].routed
             /\ mappings' = mappings /\ topics' = topics /\ out' = out
             /\ IF IsTg(e) /\ isCommand(handlers[e].msg.text)
                THEN /\ handlers'[e].pc = "commandReply"
                     /\ IsToggle(e) => isActive'
                ELSE handlers'[e].pc = "done"]_vars
  /\ [][\A e \in DOMAIN handlers' :
          (Acts(e) /\ ~handlers'[e].routed) => (mappings' = mappings /\ topics' = topics)]_vars

\* a /toggle turned the bridge off and was answered; an Instagram message
\* that was handed over after that has been saved and dropped
C19_Witness ==
  /\ ~isActive
  /\ \E e, g \in DOMAIN handlers :
       /\ IsToggle(g) /\ handlers[g].pc = "done"
       /\ \E i \in CallsOf(g) : out[i].role = "command" /\ out[i].ok
       /\ IsIg(e) /\ g < e
       /\ handlers[e].pc = "done" /\ ~handlers[e].routed
       /\ e \in savedMessages
       /\ CallsOf(e) = {}

----------------------------------------------------------------------------
\* a Telegram event of a chat other than the configured one
OutOfScope(h) == h.msg.platform = "telegram" /\ h.raw.chat_id # ConfigChatId

(* C20 -- Scope filter: a Telegram event whose chat id differs from the    *)
(* configured chat id is discarded before any effect: it is not saved, not *)
(* passed to a listener, causes no call (no forward, no rejection notice,  *)
(* no command reply), and its receipt changes nothing but the record of    *)
(* the event itself (a /toggle in it does not flip the bridge).            *)
C20_ScopeFilter ==
  /\ [](\A e \in DOMAIN handlers :
          OutOfScope(handlers[e])
          => /\ handlers[e].pc = "wrongChat"
             /\ e \notin savedMessages
             /\ ~handlers[e].routed
             /\ handlers[e].mapping = <<>>
             /\ CallsOf(e) = {})
  /\ [][\A e \in DOMAIN handlers' :
          (Acts(e) /\ OutOfScope(handlers'[e]))
          => UNCHANGED <<isActive, mappings, savedMessages, topics, out, faults,
                         process>>]_vars

\* a /toggle of another chat, under the id of a mapped topic, was discarded,
\* and a message of the configured chat received after it was forwarded
C20_Witness ==
  /\ isActive
  /\ \E e, b \in DOMAIN handlers :
       /\ e < b
       /\ OutOfScope(handlers[e]) /\ handlers[e].msg.text = <<"/", "toggle">>
       /\ handlers[e].mappedAtReceipt
       /\ ~OutOfScope(handlers[b]) /\ handlers[b].pc = "done"
       /\ \E j \in CallsOf(b) : out[j].role = "text" /\ out[j].ok /\ ToInstagram(out[j])


----------------------------------------------------------------------------
\* event e was forwarded and no external call has failed
ForwardedCleanly(e) == Forwarded(e) /\ NoFault

\* the kinds of attachment forwardToInstagram has no send for
UnsupportedByInstagram(type) == igMediaType(type) = ""

(* C21 -- Unsupported kinds are reported: of a forwarded Telegram message, *)
(* every attachment of a kind that cannot be sent to Instagram (voice,     *)
(* document, sticker) gets a textual failure notice in the Instagram       *)
(* thread in its place.                                                    *)
C21_UnsupportedReported ==
  \A e \in DOMAIN handlers :
    (IsTg(e) /\ ForwardedCleanly(e))
    => \A k \in DOMAIN handlers[e].msg.media :
         LET type == handlers[e].msg.media[k].type
         IN  UnsupportedByInstagram(type)
             => \E i \in CallsFor(e, "notice", type) : ToInstagram(out[i])


----------------------------------------------------------------------------
\* the attachments of event e of a kind forwardToInstagram has no send for
UnknownKinds(e) ==
  {k \in DOMAIN handlers[e].msg.media :
     UnsupportedByInstagram(handlers[e].msg.media[k].type)}

(* C22 -- An attachment of a kind the forwarder does not recognise is     *)
(* never fatal: no exception leaves the forwarding routine because of it,  *)
(* and when no call fails the text body and every other attachment of the  *)
(* same message are each sent once.                                        *)
C22_UnknownKindNotFatal ==
  \A e \in DOMAIN handlers :
    IsTg(e) =>
      /\ handlers[e].pc # "unhandledRejection"
      /\ (ForwardedCleanly(e) /\ UnknownKinds(e) # {})
         => /\ handlers[e].msg.text # NoText
                 => Cardinality({i \in CallsFor(e, "text", "") : out[i].ok}) = 1
            /\ \A k \in DOMAIN handlers[e].msg.media \ UnknownKinds(e) :
                 Cardinality({i \in CallsFor(e, "media", handlers[e].msg.media[k].type) :
                                out[i].ok}) = 1

\* a forwarded message with text, a photo or video, and an unknown kind
C22_Witness ==
  \E e \in DOMAIN handlers :
    /\ IsTg(e) /\ ForwardedCleanly(e)
    /\ handlers[e].msg.text # NoText
    /\ UnknownKinds(e) # {}
    /\ DOMAIN handlers[e].msg.media \ UnknownKinds(e) # {}


----------------------------------------------------------------------------
\* the attachment of event e that call c sent
Delivered(c) ==
  {k \in DOMAIN handlers[c.ev].msg.media : handlers[c.ev].msg.media[k].type = c.media}

(* C23 -- Size ceiling: an attachment whose size exceeds the ceiling of   *)
(* 50 MB is never delivered to the opposite platform (one whose size       *)
(* equals the ceiling may be).                                             *)
C23_SizeCeiling ==
  \A i \in DOMAIN out :
    (out[i].role = "media" /\ out[i].ok /\ IsTg(out[i].ev))
    => \A k \in Delivered(out[i]) :
         validateMediaFile(handlers[out[i].ev].msg.media[k].fileSize, MaxMediaSize).valid


----------------------------------------------------------------------------
\* the introductions sent into topic k, as positions of `out`
Introductions(k) ==
  {i \in DOMAIN out : out[i].role = "welcome" /\ out[i].dest = k}

\* what forwardToTelegram sent into topic k, as positions of `out`
ForwardedInto(k) ==
  {i \in DOMAIN out :
     /\ IsIg(out[i].ev) /\ out[i].dest = k
     /\ out[i].role \in {"text", "media", "notice"}}

(* C24 -- One-time introduction: when no call fails, into every topic that *)
(* provisioning created the introduction is sent at most once, exactly     *)
(* once by the time the creating handler has finished, and before every    *)
(* forwarded message sent into that topic.                                 *)
C24_OneTimeIntroduction ==
  NoFault =>
    \A k \in DOMAIN topics :
      topics[k].ev # 0
      => /\ Cardinality(Introductions(k)) <= 1
         /\ Finished(topics[k].ev) => Cardinality(Introductions(k)) = 1
         /\ \A j \in ForwardedInto(k) : \E i \in Introductions(k) : i < j


----------------------------------------------------------------------------
\* topic k was created by provisioning and its creator has stored the mapping
Provisioned(k) ==
  /\ topics[k].ev # 0
  /\ handlers[topics[k].ev].pc \notin {"saveThreadMapping"}

(* C25 -- The reverse lookup round-trips: when no call fails, for every    *)
(* topic T created by provisioning for Instagram thread t, from the        *)
(* moment its creator has stored the mapping the lookup by Telegram topic  *)
(* of T returns the mapping of t, so that a message posted in T is         *)
(* forwarded to t and not rejected.                                        *)
C25_ReverseLookupRoundTrips ==
  NoFault =>
    \A k \in DOMAIN topics :
      Provisioned(k)
      => LET m == getThreadMappingByTelegram(mappings, k)
         IN  /\ m # <<>>
             /\ m[1].instagramThreadId = handlers[topics[k].ev].msg.threadId


----------------------------------------------------------------------------
\* the calls of the command listener, and those of the bridge's routing
CommandRoles == {"command", "commandError"}
RoutingRoles == {"text", "media", "notice", "reject"}

\* event e is a Telegram message posted in a topic
InTopic(e) == IsTg(e) /\ handlers[e].raw.message_thread_id # 0

----------------------------------------------------------------------------
\* the required variables the environment leaves unset or empty
MissingKeys(env) ==
  {RequiredKeys[n] : n \in {x \in DOMAIN RequiredKeys :
                              RequiredKeys[x] \notin DOMAIN env \/ env[RequiredKeys[x]] = <<>>}}

\* the keys an error message of validateConfig lists: every second chunk
\* after its heading
ListedKeys(message) == <<>> \o [n \in 1..(Len(message) \div 2) |-> message[2 * n]]

\* the place of a key in the required list
PlaceOf(key) == CHOOSE n \in DOMAIN RequiredKeys : RequiredKeys[n] = key

\* validateConfig has run
Validated == "validateConfig" \in {process.failed} \cup {process.done[n] : n \in DOMAIN process.done}

(* C27 -- validateConfig throws if and only if at least one of the four    *)
(* required variables is unset or empty, and its error message lists       *)
(* exactly the missing ones, each once, in the order of the required list. *)
C27_ValidateConfig ==
  Validated
  => /\ process.failed = "validateConfig" <=> MissingKeys(process.env) # {}
     /\ process.failed = "validateConfig"
        => LET listed == ListedKeys(process.message)
           IN  /\ process.message[1] = "Missing required environment variables: "
               /\ {listed[n] : n \in DOMAIN listed} = MissingKeys(process.env)
               /\ \A m, n \in DOMAIN listed :
                    m < n => PlaceOf(listed[m]) < PlaceOf(listed[n])
               /\ \A n \in 2..(Len(process.message) - 1) :
                    n % 2 = 0 => process.message[n + 1] = ", "

\* validation failed in an environment that sets the first variable to the
\* empty string, leaves the last unset and sets the two between
C27_Witness ==
  /\ process.failed = "validateConfig"
  /\ "INSTAGRAM_USERNAME" \in DOMAIN process.env
  /\ process.env["INSTAGRAM_USERNAME"] = <<>>
  /\ MissingKeys(process.env) = {"INSTAGRAM_USERNAME", "MONGODB_URI"}
  /\ "MONGODB_URI" \notin DOMAIN process.env


----------------------------------------------------------------------------
\* the steps of initialize that connect to the store, start an adapter or
\* register a handler
SideEffects ==
  {"database.connect", "telegramBot.initialize", "instagramBot.login",
   "registerCommands", "bridgeModule.initialize", "setupCommandHandling",
   "setupGracefulShutdown"}

\* the steps of initialize that were entered: those that returned, and the
\* one that threw
Entered == process.done \o (IF process.failed = "" THEN <<>> ELSE <<process.failed>>)

(* C28 -- Configuration errors are fatal at start-up and precede every     *)
(* side effect: when validation fails the process exits with code 1        *)
(* without having connected to the store, started an adapter, registered a *)
(* handler or sent anything; and in every run each of those steps is       *)
(* entered only after validateConfig has returned.                         *)
C28_FatalBeforeSideEffects ==
  /\ process.failed = "validateConfig"
     => /\ process.at = "exited" /\ process.code = 1
        /\ process.done = <<>> /\ out = <<>>
  /\ MissingKeys(process.env) # {}
     => \A n \in DOMAIN Entered : Entered[n] \notin SideEffects
  /\ \A n \in DOMAIN Entered :
       Entered[n] \in SideEffects
       => \E m \in 1..(n - 1) : process.done[m] = "validateConfig"

\* validation failed and the process has exited with code 1
C28_Witness ==
  /\ process.failed = "validateConfig"
  /\ process.at = "exited" /\ process.code = 1
  /\ MissingKeys(process.env) = {"TELEGRAM_CHAT_ID"}


----------------------------------------------------------------------------
\* the command a Telegram message names: what follows its prefix
CommandNameOf(raw) == ShownText(raw)[2]

(* C29 -- Operator commands do not bypass routing state: no step of a      *)
(* /bridge or /threads command changes the mapping store, the topics or    *)
(* the bridge-active flag; a /toggle command flips the flag in the step    *)
(* that dispatches it, and changes neither the flag in any other step nor  *)
(* the store in any step.                                                  *)
C29_CommandsFrame ==
  [][\A e \in DOMAIN handlers' :
       (handlers'[e].msg.platform = "telegram" /\ Acts(e)
          /\ CommandPrefixed(handlers'[e].raw)
          /\ CommandNameOf(handlers'[e].raw) \in {"bridge", "threads", "toggle"})
       => /\ mappings' = mappings /\ topics' = topics
          /\ IF /\ CommandNameOf(handlers'[e].raw) = "toggle"
                /\ e \in DOMAIN handlers /\ HandsOver(e)
             THEN isActive' = ~isActive
             ELSE isActive' = isActive]_vars

\* a /threads command has listed the stored mapping and been answered, a
\* /toggle has switched the bridge off, and the store is as it was
C29_Witness ==
  /\ mappings = PriorMappings /\ ~isActive
  /\ \E e, g \in DOMAIN handlers :
       /\ IsTg(e) /\ CommandNameOf(handlers[e].raw) = "threads"
       /\ Len(handlers[e].listed) = 1 /\ handlers[e].pc = "done"
       /\ \E i \in CallsOf(e) : out[i].role = "command" /\ out[i].ok
       /\ IsToggle(g) /\ handlers[g].pc = "done"


----------------------------------------------------------------------------
\* a list of mappings is ordered most-recently-active first
MostRecentFirst(list) ==
  \A m, n \in DOMAIN list :
    list[m].lastActivity > list[n].lastActivity => m < n

(* C30 -- The mapping list the store returns, which /threads shows in the  *)
(* order returned, is ordered most-recently-active first: of two mappings  *)
(* the one with the later lastActivity comes earlier.                      *)
C30_ListOrder ==
  \A e \in DOMAIN handlers :
    (IsTg(e) /\ CommandNameOf(handlers[e].raw) = "threads")
    => MostRecentFirst(handlers[e].listed)


----------------------------------------------------------------------------
\* the sends of the forwarding routine for event e, in the order issued:
\* what each is for, and the attachment it is about
RECURSIVE SendsFrom(_, _)
SendsFrom(e, i) ==
  IF i > Len(out) THEN <<>>
  ELSE (IF out[i].ev = e /\ out[i].role \in {"text", "media", "notice"}
        THEN <<<<out[i].role, out[i].media>>>> ELSE <<>>) \o SendsFrom(e, i + 1)

SendsOf(e) == SendsFrom(e, 1)

\* the place of the attachment of a kind in the attachment list of event e
\* (0 for the text body)
PlaceIn(e, type) ==
  IF type = "" THEN 0
  ELSE CHOOSE k \in DOMAIN handlers[e].msg.media : handlers[e].msg.media[k].type = type

\* the sends a forwarded message is due when no call fails: the text, then
\* one for each attachment the other platform takes, in list order
RECURSIVE MediaDue(_, _)
MediaDue(e, k) ==
  IF k > Len(handlers[e].msg.media) THEN <<>>
  ELSE (IF IsTg(e) /\ UnsupportedByInstagram(handlers[e].msg.media[k].type) THEN <<>>
        ELSE <<<<"media", handlers[e].msg.media[k].type>>>>) \o MediaDue(e, k + 1)

SendsDue(e) ==
  (IF handlers[e].msg.text # NoText THEN <<<<"text", "">>>> ELSE <<>>) \o MediaDue(e, 1)

(* C31 -- Within one forwarded message the sends are issued in a fixed     *)
(* order: the text body first, then the attachments in the order of the    *)
(* attachment list, the send of an attachment, and after it its failure    *)
(* notice, before any send for the next attachment; when no call fails the *)
(* sends are exactly the text and one send for each attachment.            *)
C31_SendOrder ==
  \A e \in DOMAIN handlers :
    LET sends == SendsOf(e)
    IN  /\ \A m, n \in DOMAIN sends :
             m < n => /\ PlaceIn(e, sends[m][2]) <= PlaceIn(e, sends[n][2])
                      /\ (sends[m][2] = sends[n][2])
                           => (sends[m][1] = "media" /\ sends[n][1] = "notice")
        /\ ForwardedCleanly(e) => sends = SendsDue(e)

\* a message of each direction has been forwarded: from Instagram the
\* text, then both attachments; from Telegram the caption, then the photo
C31_Witness ==
  \E e, g \in DOMAIN handlers :
    /\ IsIg(e) /\ ForwardedCleanly(e) /\ Len(SendsOf(e)) = 3
    /\ IsTg(g) /\ ForwardedCleanly(g) /\ Len(SendsOf(g)) = 2


----------------------------------------------------------------------------
\* the forwarding routine for event e has returned after issuing a send
ForwardingEnded(e) == handlers[e].pc = "done" /\ SendsOf(e) # <<>>

(* C32 -- A send is attempted for every attachment of a forwarded message, *)
(* whatever other sends of the same message fail: once the forwarding      *)
(* routine has ended, each attachment the other platform takes has had its *)
(* send attempted (or its fetch, answered by a notice).                    *)
C32_EveryAttachmentAttempted ==
  \A e \in DOMAIN handlers :
    ForwardingEnded(e)
    => \A k \in DOMAIN handlers[e].msg.media :
         LET type == handlers[e].msg.media[k].type
         IN  ~(IsTg(e) /\ UnsupportedByInstagram(type))
             => CallsFor(e, "media", type) \cup CallsFor(e, "notice", type) # {}


----------------------------------------------------------------------------
\* the adapter accepted event e: it went on to handleMessage's handlers
Accepted(e) == IsIg(e) /\ handlers[e].pc \notin {"stale", "self"}

(* C33 -- At-most-once dispatch on the Instagram side: of the deliveries   *)
(* of one message, through either realtime event or as a replay, at most   *)
(* one is passed to the message handlers.                                  *)
C33_AtMostOnceDispatch ==
  \A e, g \in DOMAIN handlers :
    (Accepted(e) /\ Accepted(g) /\ handlers[e].raw = handlers[g].raw) => e = g

\* a message was forwarded, and a second delivery of it was dropped
C33_Witness ==
  \E e, g \in DOMAIN handlers :
    /\ e < g /\ IsIg(e) /\ IsIg(g) /\ handlers[e].raw = handlers[g].raw
    /\ handlers[e].pc = "done" /\ handlers[e].routed
    /\ \E i \in CallsOf(e) : out[i].role = "text" /\ out[i].ok
    /\ handlers[g].pc = "stale"


----------------------------------------------------------------------------
\* isNewMessage held for event e (the adapter then drops its own messages)
PassedMark(e) == IsIg(e) /\ handlers[e].pc # "stale"

(* C34 -- One high-water mark for all threads: lastMessageCheck never      *)
(* decreases and is the timestamp of the last message that passed it; a    *)
(* message passes only if its timestamp is strictly greater than that of   *)
(* every message that passed before, of whatever thread; a message that    *)
(* does not pass is dropped: it is not saved, not routed and causes no     *)
(* send.                                                                   *)
C34_HighWaterMark ==
  /\ [][lastMessageCheck' >= lastMessageCheck]_vars
  /\ [](\A g \in DOMAIN handlers :
          IsIg(g)
          => IF PassedMark(g)
             THEN /\ \A e \in 1..(g - 1) :
                       PassedMark(e) => handlers[g].msg.timestamp > handlers[e].msg.timestamp
                  /\ lastMessageCheck >= handlers[g].msg.timestamp
             ELSE /\ \E e \in 1..(g - 1) :
                       PassedMark(e) /\ handlers[e].msg.timestamp >= handlers[g].msg.timestamp
                  /\ CallsOf(g) = {} /\ ~handlers[g].routed /\ g \notin savedMessages)
  /\ [](\A g \in DOMAIN handlers :
          (PassedMark(g) /\ \A e \in DOMAIN handlers : PassedMark(e) => e <= g)
          => lastMessageCheck = handlers[g].msg.timestamp)

\* a message of thread t2 was dropped because a message of thread t1 with a
\* later timestamp had been accepted and forwarded before
C34_Witness ==
  \E e, g \in DOMAIN handlers :
    /\ e < g /\ IsIg(e) /\ IsIg(g)
    /\ handlers[e].msg.threadId = "t1" /\ handlers[g].msg.threadId = "t2"
    /\ handlers[e].msg.timestamp > handlers[g].msg.timestamp
    /\ handlers[e].pc = "done" /\ \E i \in CallsOf(e) : out[i].role = "text" /\ out[i].ok
    /\ handlers[g].pc = "stale"


----------------------------------------------------------------------------
\* the step is the return of a failed store call awaited by event e at `at`
FailedAt(e, at) ==
  /\ e \in DOMAIN handlers
  /\ handlers[e].pc = at /\ handlers'[e].pc # at
  /\ faults' < faults

(* C35 -- A failed mapping lookup is taken for "no mapping".  On the       *)
(* Instagram side the handler of a mapped thread goes on to create a topic *)
(* and its saveThreadMapping replaces the stored document of the thread    *)
(* with one that names the new topic; on the Telegram side the handler     *)
(* sends the rejection notice into the topic and forwards nothing.         *)
C35_LookupFailureIsNoMapping ==
  /\ [][\A e \in DOMAIN handlers :
          LET h == handlers[e]
              g == handlers'[e]
          IN  /\ FailedAt(e, "getThreadMapping")
                 => g.pc = "createForumTopic" /\ g.mapping = <<>>
              /\ (h.pc = "saveThreadMapping" /\ g.pc = "welcome")
                 => /\ Cardinality({d \in mappings' : d.instagramThreadId = h.msg.threadId}) = 1
                    /\ getThreadMapping(mappings', h.msg.threadId)[1].telegramThreadId
                         = h.telegramThreadId
                    /\ \A d \in mappings :
                         d.instagramThreadId = h.msg.threadId
                         => d.telegramThreadId # h.telegramThreadId /\ d \notin mappings'
              /\ FailedAt(e, "getThreadMappingByTelegram") => g.pc = "reject"
              /\ (h.pc = "reject" /\ g.pc # "reject")
                 => /\ g.pc = "done"
                    /\ Len(out') = Len(out) + 1
                    /\ out'[Len(out')].api = "tg.sendMessage"
                    /\ out'[Len(out')].dest = h.msg.threadId
                    /\ out'[Len(out')].text = rejectionText]_vars
  /\ [](\A e \in DOMAIN handlers :
          (IsTg(e) /\ \E i \in CallsOf(e) : out[i].role = "reject")
          => /\ Cardinality(CallsOf(e)) = 1
             /\ handlers[e].pc = "done")

\* both lookups of a run failed although thread t1 and topic 1 were mapped:
\* the thread's mapping now names the new topic 2, the introduction went
\* there, and the topic message was answered with the rejection notice
C35_Witness ==
  \E e, g \in DOMAIN handlers :
    /\ IsIg(e) /\ IsTg(g)
    /\ faults = 0 /\ {e, g} \subseteq savedMessages
    /\ handlers[e].mappedAtReceipt /\ handlers[e].pc = "updateThreadActivity"
    /\ handlers[e].telegramThreadId = 2
    /\ getThreadMapping(mappings, "t1")[1].telegramThreadId = 2
    /\ \E i \in CallsOf(e) : out[i].role = "welcome" /\ out[i].ok /\ out[i].dest = 2
    /\ handlers[g].msg.threadId = 1 /\ handlers[g].pc = "done"
    /\ \E i \in CallsOf(g) : out[i].role = "reject" /\ out[i].ok /\ out[i].dest = 1


----------------------------------------------------------------------------
ProvisioningSteps == {"createForumTopic", "saveThreadMapping", "welcome"}

\* the topics event e has created
TopicsOf(e) == {t \in DOMAIN topics : topics[t].ev = e}

----------------------------------------------------------------------------
\* event e is a message the bridged account wrote itself
OwnMessage(e) == IsIg(e) /\ handlers[e].raw.user_id = SelfPk

(* C37 -- No echo.  A message written by the bridged account is dropped by *)
(* the adapter before it is saved or handed to the bridge: it causes no    *)
(* send, no topic and no touch, and a thread with none but such messages   *)
(* gets no mapping.                                                        *)
C37_NoEcho ==
  /\ \A e \in DOMAIN handlers :
       OwnMessage(e)
       => /\ handlers[e].pc \in {"stale", "self"}
          /\ ~handlers[e].routed /\ handlers[e].touches = 0
          /\ e \notin savedMessages
          /\ CallsOf(e) = {} /\ TopicsOf(e) = {}
  /\ \A t \in IgThreads :
       (\A e \in DOMAIN handlers : (IsIg(e) /\ handlers[e].msg.threadId = t) => OwnMessage(e))
       => getThreadMapping(mappings, t) = getThreadMapping(PriorMappings, t)

\* the account's own message in the unmapped thread t2 passed the mark and
\* was dropped, while a counterpart's message of t1 was forwarded
C37_Witness ==
  \E e, g \in DOMAIN handlers :
    /\ OwnMessage(e) /\ handlers[e].pc = "self" /\ handlers[e].msg.threadId = "t2"
    /\ lastMessageCheck = handlers[e].msg.timestamp
    /\ IsIg(g) /\ ~OwnMessage(g) /\ handlers[g].pc = "done"
    /\ \E i \in CallsOf(g) : out[i].role = "text" /\ out[i].ok
    /\ getThreadMapping(mappings, "t2") = <<>> /\ Len(topics) = 1


----------------------------------------------------------------------------
\* the adapter took event e for handling (it was in scope, fresh, and not
\* the account's own)
TakenUp(e) == handlers[e].pc \notin {"stale", "self", "wrongChat"}

\* the adapter of event e is at its loop over the registered handlers
AtDispatch(e) == handlers[e].pc \in {"saveMessage", "tgSaveMessage"}

(* C38 as stated -- A message an adapter accepts before the bridge module  *)
(* has registered its listeners is handed to no listener and never         *)
(* forwarded.                                                              *)
C38_WindowMessagesLost ==
  \A e \in DOMAIN handlers :
    (handlers[e].inWindow /\ TakenUp(e)) => ~handlers[e].routed /\ CallsOf(e) = {}

(* C38 -- Start-up window.  Both adapters deliver events before            *)
(* bridgeModule.initialize has registered the bridge's listeners.  A       *)
(* message whose adapter reaches its loop over the listeners (after the    *)
(* message is saved) before the registration is handed to no listener: it  *)
(* is never forwarded, creates nothing, and its handler does nothing       *)
(* afterwards; a message accepted before the registration whose save       *)
(* returns after it is handed to the bridge like any other.  On the        *)
(* Instagram side the message has advanced lastMessageCheck either way, so *)
(* a replay of it is dropped as not new.                                   *)
C38_StartupWindow ==
  /\ [][\A e \in DOMAIN handlers :
          (AtDispatch(e) /\ ~AtDispatch(e)')
          => handlers'[e].routed = Passed("bridgeModule.initialize")]_vars
  /\ [](\A e \in DOMAIN handlers :
          (TakenUp(e) /\ ~AtDispatch(e) /\ ~handlers[e].routed)
          => /\ handlers[e].pc = "done"
             /\ CallsOf(e) = {} /\ TopicsOf(e) = {} /\ handlers[e].touches = 0)
  /\ [][\A e \in DOMAIN handlers :
          handlers[e].pc = "done"
          => /\ handlers'[e] = handlers[e]
             /\ {i \in DOMAIN out' : out'[i].ev = e} = CallsOf(e)]_vars
  /\ [](\A e, g \in DOMAIN handlers :
          (e < g /\ IsIg(e) /\ PassedMark(e) /\ handlers[g].raw = handlers[e].raw)
          => handlers[g].pc = "stale" /\ CallsOf(g) = {})

\* the process runs; the message it received and saved during start-up was
\* handed to no listener, and its replay after start-up was dropped
C38_Witness ==
  \E e, g \in DOMAIN handlers :
    /\ process.at = "running"
    /\ IsIg(e) /\ handlers[e].inWindow /\ e \in savedMessages
    /\ handlers[e].pc = "done" /\ ~handlers[e].routed /\ CallsOf(e) = {}
    /\ ~handlers[g].inWindow /\ handlers[g].raw = handlers[e].raw
    /\ handlers[g].pc = "stale"


----------------------------------------------------------------------------
\* the names a registerCommand call registers the command under
NamesOf(commandData) ==
  {toLowerCase(commandData.name)}
    \cup {toLowerCase(commandData.aliases[k]) : k \in DOMAIN commandData.aliases}

\* the registerCommand calls, among the first n, that registered `name`
RegistrationsOf(name, n) ==
  {k \in 1..n : toLowerCase(name) \in NamesOf(process.registered[k])}

Latest(ks) == CHOOSE k \in ks : \A j \in ks : j <= k

\* the calls of the command listener for the i-th executeCommand
NoticesOf(i, role) == {j \in DOMAIN out : out[j].ev = i /\ out[j].role = role}

\* executeCommand found the right command for its i-th call, or none
LookupRight(i) ==
  LET x  == process.executed[i]
      ks == RegistrationsOf(x.name, x.registeredBefore)
  IN  IF ks = {}
      THEN /\ x.invoked = <<>> /\ x.result = "false"
           /\ Cardinality(NoticesOf(i, "unknown")) = 1
           /\ \A j \in NoticesOf(i, "unknown") :
                /\ out[j].dest = x.threadId
                /\ out[j].text = <<"Unknown command: ", x.name>>
      ELSE /\ x.invoked = <<process.registered[Latest(ks)].handler>>
           /\ NoticesOf(i, "unknown") = {}

(* C39 as stated -- executeCommand invokes the handler registered last     *)
(* under the name or alias, whatever the case, and returns true; for a     *)
(* name never registered it invokes none and returns false, and the        *)
(* listener sends one 'Unknown command' notice into the topic.             *)
C39_LookupReturnsTrue ==
  \A i \in DOMAIN process.executed :
    /\ LookupRight(i)
    /\ process.executed[i].invoked # <<>> => process.executed[i].result = "true"

(* C39 -- Command registry lookup.  executeCommand(name) invokes exactly   *)
(* one handler, that of the command registered last under the name or      *)
(* alias, whatever the case; it returns true when the handler returns and  *)
(* throws what the handler throws.  For a name never registered it         *)
(* invokes none and returns false, and the listener sends exactly one      *)
(* 'Unknown command' notice into the topic the command came from.          *)
C39_RegistryLookup ==
  \A i \in DOMAIN process.executed :
    /\ LookupRight(i)
    /\ process.executed[i].invoked # <<>>
       => /\ Cardinality(NoticesOf(i, "command")) = 1
          /\ \A j \in NoticesOf(i, "command") :
               process.executed[i].result = (IF out[j].ok THEN "true" ELSE "threw")
          /\ process.executed[i].result = "threw"
             => Cardinality(NoticesOf(i, "commandError")) = 1

\* 'h' was registered, then 'P' with the alias 'H': executing 'H' ran the
\* handler of the second registration and returned true, and executing 'x'
\* ran none and was answered with one notice in topic 1
C39_Witness ==
  /\ Len(process.registered) = 2 /\ Len(process.executed) = 2
  /\ process.registered[1].name = <<"h">> /\ process.registered[1].handler = "first"
  /\ process.registered[2].name = <<"P">> /\ process.registered[2].handler = "second"
  /\ process.registered[2].aliases = << <<"H">> >>
  /\ process.executed[1].name = <<"H">> /\ process.executed[1].registeredBefore = 2
  /\ process.executed[1].invoked = <<"second">> /\ process.executed[1].result = "true"
  /\ process.executed[2].name = <<"x">> /\ process.executed[2].result = "false"
  /\ \E j \in NoticesOf(2, "unknown") : out[j].dest = 1 /\ out[j].ok


----------------------------------------------------------------------------
(* C40 -- Staging sweep.  After a cleanupTempFiles(maxAge) that met no     *)
(* error, no file of the staging directory whose age (the time of the call *)
(* less its mtime) is greater than maxAge is left; every file whose age is *)
(* at most maxAge is left in place, and the sweep adds none; the files     *)
(* outside the staging directory are as they were.                        *)
C40_StagingSweep ==
  /\ process.outside = OutsideFiles
  /\ \A k \in DOMAIN process.swept :
       LET s == process.swept[k]
       IN  /\ ~s.error => \A f \in s.after : ~(s.at - f.mtime > s.maxAge)
           /\ \A f \in s.before : s.at - f.mtime <= s.maxAge => f \in s.after
           /\ s.after \subseteq s.before

\* a sweep with the default maxAge met no error: it removed a file one
\* millisecond older than maxAge and left one exactly as old as maxAge
C40_Witness ==
  \E k \in DOMAIN process.swept :
    LET s == process.swept[k]
    IN  /\ ~s.error /\ s.maxAge = TempMaxAge
        /\ \E f, g \in s.before :
             /\ s.at - f.mtime = s.maxAge + 1 /\ f \notin s.after
             /\ s.at - g.mtime = s.maxAge /\ g \in s.after

====
